---- MODULE Spec2Model ----
(***************************************************************************)
(* Verification model of plexus-substrate: the MCP lifecycle state machine *)
(* and method router, the Plexus router's plexus.call subscription, and    *)
(* the bidirectional request channel.                                      *)
(***************************************************************************)
EXTENDS Integers, Sequences, FiniteSets, TLC

VARIABLES
    mcpState,     \* McpStateMachine.state
    mcpCall,      \* the last MCP operation: what was called and what it returned
    mcpCalls,     \* number of MCP operations performed so far
    mcpThreads,   \* thread -> the call it is making on the state machine
    activations,  \* PlexusInner.activations: namespace -> registered activation
    rtPhase,      \* position of rpc_call and of the task it spawns
    rtCall,       \* the arguments of the rpc_call being served
    rtRoute,      \* stream_result: what Plexus::route returned
    rtStream,     \* items the routed stream has not yielded yet
    rtYielded,    \* items the routed stream has yielded so far
    rtSink,       \* envelopes the subscription sink has accepted, in order
    rtSinkOpen,   \* FALSE once the client has closed the subscription
    rtFailed,     \* number of sends on the sink that returned an error
    bdPending,    \* pending registries: correlator -> set of request ids
    bdNextId,     \* source of fresh request ids
    bdReqs,       \* the request calls made so far, with their slot and outcome
    bdSink,       \* channel -> envelopes emitted on its outbound sink
    bdSinkOpen,   \* channel -> FALSE once the sink's receiver is dropped
    bdCall,       \* the last call that returned at once, and its result
    built,        \* Plexus instances under construction: instance -> registry
    handle,       \* a Handle value
    hText,        \* what handle.to_string() returned
    hParsed,      \* what hText.parse::<Handle>() returned
    context,      \* PLEXUS_CONTEXT: the process-wide OnceLock<PlexusContext>
    served,       \* the Plexus instances that into_rpc_module has consumed
    hubCall,      \* the last envelope or tool catalog built from an instance
    wz            \* the interactive method being run (wizard or delete):
                  \* its channel, position and events

mcpVars == <<mcpState, mcpCall, mcpCalls, mcpThreads>>

routerVars == <<activations, rtPhase, rtCall, rtRoute, rtStream, rtYielded,
                rtSink, rtSinkOpen, rtFailed>>

bidirVars == <<bdPending, bdNextId, bdReqs, bdSink, bdSinkOpen, bdCall>>

\* objects of the library that no server task touches
handleVars == <<handle, hText, hParsed>>

hubVars == <<context, served, hubCall>>

\* everything of the library but the wizard
hostVars == <<built, handle, hText, hParsed, context, served, hubCall>>

libVars == <<built, handle, hText, hParsed, context, served, hubCall, wz>>

vars == <<mcpState, mcpCall, mcpCalls, mcpThreads, activations, rtPhase, rtCall, rtRoute,
          rtStream, rtYielded, rtSink, rtSinkOpen, rtFailed, bdPending,
          bdNextId, bdReqs, bdSink, bdSinkOpen, bdCall, built, handle, hText,
          hParsed, context, served, hubCall, wz>>

----------------------------------------------------------------------------
(* Bounds *)

MaxMcpCalls == 4
MaxItems == 3        \* longest stream an activation yields
MaxNest == 2         \* deepest nesting of plexus.call inside plexus.call
MaxRequests == 2     \* bidirectional requests issued in one run
MaxRegistrations == 2   \* register calls on one Plexus instance
MaxFieldLen == 2     \* characters in the plugin and the method of a handle
MaxMeta == 1         \* entries in the meta list of a handle
MaxTextLen == 5      \* characters in a string handed to Handle::from_str

----------------------------------------------------------------------------
(* MCP state machine: src/src/mcp/state.rs *)

McpState == {"Uninitialized", "Initializing", "Ready", "ShuttingDown"}

\* the matches! table of McpStateMachine::transition
ValidTransitionSkipping(from, to) ==
    \/ from = "Uninitialized" /\ to \in {"Initializing", "Ready"}
    \/ from = "Initializing" /\ to = "Ready"
    \/ from = "Ready" /\ to = "ShuttingDown"

\* a table that lets a machine that was shut down start again
ValidTransitionRestart(from, to) ==
    \/ from = "Uninitialized" /\ to = "Initializing"
    \/ from = "Initializing" /\ to = "Ready"
    \/ from = "Ready" /\ to = "ShuttingDown"
    \/ from = "ShuttingDown" /\ to = "Uninitialized"

ValidTransition(from, to) ==
    \/ from = "Uninitialized" /\ to = "Initializing"
    \/ from = "Initializing" /\ to = "Ready"
    \/ from = "Ready" /\ to = "ShuttingDown"

NoCall == [op |-> "none"]

\* McpStateMachine::new
\* the threads that share one McpStateMachine
McpThreads == {1, 2, 3}

McpNew ==
    /\ mcpState = "Uninitialized"
    /\ mcpCall = NoCall
    /\ mcpCalls = 0
    /\ mcpThreads = [t \in McpThreads |-> [pc |-> "idle"]]

\* Plexus::new and no subscription: an empty registry, nothing being served
RouterNew ==
    /\ activations = [ns \in {} |-> NoCall]
    /\ rtPhase = "idle"
    /\ rtCall = NoCall
    /\ rtRoute = NoCall
    /\ rtStream = << >>
    /\ rtYielded = << >>
    /\ rtSink = << >>
    /\ rtSinkOpen = TRUE
    /\ rtFailed = 0

\* the channels of the model: a direct channel, a channel on the
\* process-wide registry, and a channel created with is_bidirectional = false
Chans == {"direct", "global", "plain"}

\* the correlator of a channel: its own map, or the process-wide registry
Correlator(c) == IF c = "global" THEN "registry" ELSE c

Correlators == {Correlator(c) : c \in Chans}

\* no channel has issued a request yet
BidirNew ==
    /\ bdPending = [k \in Correlators |-> {}]
    /\ bdNextId = 1
    /\ bdReqs = << >>
    /\ bdSink = [c \in Chans |-> << >>]
    /\ bdSinkOpen = [c \in Chans |-> TRUE]
    /\ bdCall = NoCall

\* the Plexus instances a run builds side by side
Instances == {1, 2}

\* Plexus::new: no activation registered; `acts` is the HashMap, `order`
\* the order its values() iterates in, `log` the register calls so far
NewPlexus == [acts |-> [ns \in {} |-> NoCall], order |-> << >>, log |-> << >>]

RegistryNew == built = [p \in Instances |-> NewPlexus]

\* Handle::new("bash", "1.0.0", "execute"), neither displayed nor parsed;
\* a string is the sequence of its characters
HandleNew ==
    /\ handle = [plugin |-> <<"a">>, version |-> <<"1">>,
                 method |-> <<"a">>, meta |-> << >>]
    /\ hText = << >>
    /\ hParsed = NoCall

\* String::default(), which no digest equals
EmptyString == [empty |-> TRUE]

\* the OnceLock unset, no instance consumed, nothing built yet
HubNew ==
    /\ context = [set |-> FALSE]
    /\ served = {}
    /\ hubCall = NoCall

\* a wizard on the direct channel that has not been polled yet
WizardNew == wz = [ctx |-> "direct", pc |-> "start", events |-> << >>]

LibNew == RegistryNew /\ HandleNew /\ HubNew /\ WizardNew

McpInit ==
    /\ McpNew
    /\ RouterNew
    /\ BidirNew
    /\ LibNew

\* McpStateMachine::transition(to)
Transition(to) ==
    /\ mcpCalls < MaxMcpCalls
    /\ UNCHANGED <<routerVars, bidirVars, libVars>>
    /\ mcpCalls' = mcpCalls + 1
    /\ UNCHANGED mcpThreads
    /\ LET from == mcpState IN
       IF ValidTransition(from, to)
       THEN /\ mcpState' = to
            /\ mcpCall' = [op |-> "transition", from |-> from, to |-> to,
                           result |-> [ok |-> TRUE]]
       ELSE /\ mcpState' = mcpState
            /\ mcpCall' = [op |-> "transition", from |-> from, to |-> to,
                           result |-> [ok |-> FALSE,
                                       err |-> [kind |-> "InvalidTransition",
                                                from |-> from, to |-> to]]]

\* McpStateMachine::current
Current ==
    /\ mcpCalls < MaxMcpCalls
    /\ UNCHANGED <<routerVars, bidirVars, libVars>>
    /\ mcpCalls' = mcpCalls + 1
    /\ UNCHANGED mcpThreads
    /\ mcpCall' = [op |-> "current", from |-> mcpState,
                   result |-> [ok |-> TRUE, value |-> mcpState]]
    /\ UNCHANGED mcpState

\* McpStateMachine::require(required)
Require(required) ==
    /\ mcpCalls < MaxMcpCalls
    /\ UNCHANGED <<routerVars, bidirVars, libVars>>
    /\ mcpCalls' = mcpCalls + 1
    /\ UNCHANGED mcpThreads
    /\ LET actual == mcpState IN
       mcpCall' = [op |-> "require", from |-> mcpState, to |-> required,
                   result |-> IF actual = required
                              THEN [ok |-> TRUE]
                              ELSE [ok |-> FALSE,
                                    err |-> [kind |-> "WrongState",
                                             expected |-> required,
                                             actual |-> actual]]]
    /\ UNCHANGED mcpState

\* McpStateMachine::require_ready
RequireReady ==
    /\ mcpCalls < MaxMcpCalls
    /\ UNCHANGED <<routerVars, bidirVars, libVars>>
    /\ mcpCalls' = mcpCalls + 1
    /\ UNCHANGED mcpThreads
    /\ LET actual == mcpState IN
       mcpCall' = [op |-> "require_ready", from |-> mcpState,
                   result |-> IF actual = "Ready"
                              THEN [ok |-> TRUE]
                              ELSE [ok |-> FALSE,
                                    err |-> [kind |-> "NotReady",
                                             actual |-> actual]]]
    /\ UNCHANGED mcpState

\* McpStateMachine::is_ready
IsReady ==
    /\ mcpCalls < MaxMcpCalls
    /\ UNCHANGED <<routerVars, bidirVars, libVars>>
    /\ mcpCalls' = mcpCalls + 1
    /\ UNCHANGED mcpThreads
    /\ mcpCall' = [op |-> "is_ready", from |-> mcpState,
                   result |-> [ok |-> TRUE, value |-> (mcpState = "Ready")]]
    /\ UNCHANGED mcpState

\* The state machine shared by threads. transition holds the write guard
\* of the RwLock from its first line to its return; current, and with it
\* require, require_ready and is_ready, holds a read guard for one read.

McpOps ==
    {[name |-> "transition", arg |-> to] : to \in McpState}
    \cup {[name |-> "require", arg |-> required] : required \in McpState}
    \cup {[name |-> n, arg |-> "none"] :
             n \in {"current", "require_ready", "is_ready"}}

\* a lock that admits every caller at once
LockFreeAlways(t, mode) == TRUE

\* RwLock: write() is granted when no other thread holds a guard, read()
\* when no other thread holds the write guard
LockFree(t, mode) ==
    \A u \in McpThreads \ {t} :
        IF mcpThreads[u].pc \in {"locked", "loaded"}
        THEN mode = "read" /\ mcpThreads[u].op.name # "transition"
        ELSE TRUE

\* thread t calls op and is granted the guard the method starts with
BeginCall(t, op) ==
    /\ mcpThreads[t].pc = "idle"
    /\ LockFree(t, IF op.name = "transition" THEN "write" ELSE "read")
    /\ mcpThreads' = [mcpThreads EXCEPT ![t] = [pc |-> "locked", op |-> op]]
    /\ UNCHANGED <<mcpState, mcpCall, mcpCalls, routerVars, bidirVars,
                   libVars>>

\* transition: let from = *state
TransitionLoad(t) ==
    /\ mcpThreads[t].pc = "locked"
    /\ mcpThreads[t].op.name = "transition"
    /\ mcpThreads' = [mcpThreads EXCEPT
                         ![t] = [pc |-> "loaded", op |-> @.op,
                                 from |-> mcpState]]
    /\ UNCHANGED <<mcpState, mcpCall, mcpCalls, routerVars, bidirVars,
                   libVars>>

\* transition: the matches! on (from, to), the assignment when it is
\* valid, and the return that drops the guard
TransitionStore(t) ==
    /\ mcpThreads[t].pc = "loaded"
    /\ UNCHANGED <<mcpCall, mcpCalls, routerVars, bidirVars, libVars>>
    /\ LET from == mcpThreads[t].from
           to == mcpThreads[t].op.arg
       IN  IF ValidTransition(from, to)
           THEN /\ mcpState' = to
                /\ mcpThreads' = [mcpThreads EXCEPT
                      ![t] = [pc |-> "returned", op |-> @.op, from |-> from,
                              result |-> [ok |-> TRUE]]]
           ELSE /\ mcpState' = mcpState
                /\ mcpThreads' = [mcpThreads EXCEPT
                      ![t] = [pc |-> "returned", op |-> @.op, from |-> from,
                              result |->
                                 [ok |-> FALSE,
                                  err |-> [kind |-> "InvalidTransition",
                                           from |-> from, to |-> to]]]]

\* current() inside current, require, require_ready or is_ready: the state
\* is copied and the read guard dropped; the method returns what it makes
\* of the copy
ReadState(t) ==
    /\ mcpThreads[t].pc = "locked"
    /\ mcpThreads[t].op.name # "transition"
    /\ UNCHANGED <<mcpState, mcpCall, mcpCalls, routerVars, bidirVars,
                   libVars>>
    /\ LET actual == mcpState
           op == mcpThreads[t].op
           result ==
             CASE op.name = "current" -> [ok |-> TRUE, value |-> actual]
               [] op.name = "is_ready" ->
                    [ok |-> TRUE, value |-> (actual = "Ready")]
               [] op.name = "require" ->
                    IF actual = op.arg THEN [ok |-> TRUE]
                    ELSE [ok |-> FALSE,
                          err |-> [kind |-> "WrongState",
                                   expected |-> op.arg, actual |-> actual]]
               [] op.name = "require_ready" ->
                    IF actual = "Ready" THEN [ok |-> TRUE]
                    ELSE [ok |-> FALSE,
                          err |-> [kind |-> "NotReady", actual |-> actual]]
       IN  mcpThreads' = [mcpThreads EXCEPT
              ![t] = [pc |-> "returned", op |-> op, from |-> actual,
                      result |-> result]]

NextMcpThreads ==
    \/ \E t \in McpThreads, op \in McpOps : BeginCall(t, op)
    \/ \E t \in McpThreads : TransitionLoad(t)
    \/ \E t \in McpThreads : TransitionStore(t)
    \/ \E t \in McpThreads : ReadState(t)

SpecMcpThreads == McpInit /\ [][NextMcpThreads]_vars

----------------------------------------------------------------------------
(* MCP errors: src/src/mcp/error.rs *)

ParseError == -32700
InvalidRequest == -32600
MethodNotFound == -32601
InvalidParams == -32602
InternalError == -32603
ServerNotInitialized == -32002
RequestCancelled == -32800

\* impl From<McpStateError> for McpError
FromStateError(e) == [kind |-> "State", inner |-> e]

\* a code table that answers an unknown method like a malformed request
McpErrorCodeInvalidRequest(e) ==
    CASE e.kind = "State" ->
            IF e.inner.kind = "NotReady" THEN ServerNotInitialized
                                         ELSE InvalidRequest
      [] e.kind \in {"UnsupportedVersion", "ToolNotFound", "ResourceNotFound",
                     "PromptNotFound", "InvalidParams"} -> InvalidParams
      [] e.kind = "Internal" -> InternalError
      [] e.kind = "Serialization" -> ParseError
      [] OTHER -> InvalidRequest

\* McpError::code
McpErrorCode(e) ==
    CASE e.kind = "MethodNotFound" -> MethodNotFound
      [] e.kind = "InvalidParams" -> InvalidParams
      [] e.kind = "State" ->
            IF e.inner.kind = "NotReady" THEN ServerNotInitialized
                                         ELSE InvalidRequest
      [] e.kind = "UnsupportedVersion" -> InvalidParams
      [] e.kind = "ToolNotFound" -> InvalidParams
      [] e.kind = "ResourceNotFound" -> InvalidParams
      [] e.kind = "PromptNotFound" -> InvalidParams
      [] e.kind = "Internal" -> InternalError
      [] e.kind = "NotImplemented" -> MethodNotFound
      [] e.kind = "Serialization" -> ParseError

----------------------------------------------------------------------------
(* MCP method router: src/src/mcp/interface.rs *)

\* the arms of the match in McpInterface::handle
McpMethodTable ==
    {"initialize", "notifications/initialized", "ping", "tools/list",
     "tools/call", "resources/list", "resources/read", "prompts/list",
     "prompts/get", "notifications/cancelled"}

\* method names a client may send: the table and one name outside it
McpMethods == McpMethodTable \cup {"unknown/method"}

\* handlers that answer with an empty result
HandlerResultEmpty(method) == [ok |-> TRUE, value |-> << >>]

\* the handle_* stubs: each returns NotImplemented(<its method>)
HandlerResult(method) ==
    [ok |-> FALSE, err |-> [kind |-> "NotImplemented", method |-> method]]

\* McpInterface::handle(method, params)
Handle(method) ==
    /\ mcpCalls < MaxMcpCalls
    /\ UNCHANGED <<routerVars, bidirVars, libVars>>
    /\ mcpCalls' = mcpCalls + 1
    /\ UNCHANGED mcpThreads
    /\ mcpCall' = [op |-> "handle", from |-> mcpState, method |-> method,
                   result |-> IF method \in McpMethodTable
                              THEN HandlerResult(method)
                              ELSE [ok |-> FALSE,
                                    err |-> [kind |-> "MethodNotFound",
                                             method |-> method]]]
    /\ UNCHANGED mcpState

NextMcp ==
    \/ \E to \in McpState : Transition(to)
    \/ Current
    \/ \E required \in McpState : Require(required)
    \/ RequireReady
    \/ IsReady
    \/ \E method \in McpMethods : Handle(method)

SpecMcp == McpInit /\ [][NextMcp]_vars

----------------------------------------------------------------------------
(* Claims about the MCP lifecycle *)

\* C1: a transition(to) call succeeds only on one of the three edges
\* Uninitialized->Initializing, Initializing->Ready, Ready->ShuttingDown and
\* then the state is `to`; every other call returns
\* InvalidTransition{from, to} and leaves the state unchanged.
C1_TransitionOnlyOnEdges ==
    mcpCall.op = "transition" =>
        LET from == mcpCall.from
            to == mcpCall.to
            onEdge == <<from, to>> \in {<<"Uninitialized", "Initializing">>,
                                        <<"Initializing", "Ready">>,
                                        <<"Ready", "ShuttingDown">>}
        IN  /\ mcpCall.result.ok <=> onEdge
            /\ mcpCall.result.ok => mcpState = to
            /\ ~mcpCall.result.ok =>
                  /\ mcpCall.result.err = [kind |-> "InvalidTransition",
                                           from |-> from, to |-> to]
                  /\ mcpState = from

\* C1 witness: a rejected transition has happened after an accepted one
\* (Initializing -> Uninitialized, as in test_invalid_transitions)
C1_Witness ==
    /\ mcpCall.op = "transition"
    /\ mcpCall.from = "Initializing"
    /\ mcpCall.to = "Uninitialized"
    /\ ~mcpCall.result.ok
    /\ mcpState = "Initializing"

\* the lifecycle gate of the specification: initialize is admitted only in
\* Uninitialized, notifications/initialized only in Initializing
AdmittedBeforeReady(method, state) ==
    \/ method = "initialize" /\ state = "Uninitialized"
    \/ method = "notifications/initialized" /\ state = "Initializing"

\* C3: while the lifecycle state is not Ready, handle rejects every method
\* that the gate does not admit with JSON-RPC code -32002 and leaves the
\* lifecycle state unchanged.
C3_GateRejectsWith32002 ==
    (/\ mcpCall.op = "handle"
     /\ mcpCall.from # "Ready"
     /\ ~AdmittedBeforeReady(mcpCall.method, mcpCall.from))
    => /\ ~mcpCall.result.ok
       /\ McpErrorCode(mcpCall.result.err) = -32002
       /\ mcpState = mcpCall.from

\* C4: the handshake drives the lifecycle: initialize handled in
\* Uninitialized succeeds and moves to Initializing,
\* notifications/initialized handled in Initializing moves to Ready, and
\* tools/list handled in Ready succeeds.
C4_HandshakeDrivesLifecycle ==
    mcpCall.op = "handle" =>
        /\ (mcpCall.method = "initialize" /\ mcpCall.from = "Uninitialized")
              => (mcpCall.result.ok /\ mcpState = "Initializing")
        /\ (mcpCall.method = "notifications/initialized"
              /\ mcpCall.from = "Initializing")
              => mcpState = "Ready"
        /\ (mcpCall.method = "tools/list" /\ mcpCall.from = "Ready")
              => mcpCall.result.ok

\* C19: every McpStateError (InvalidTransition, WrongState, NotReady),
\* surfaced as McpError::State, reports JSON-RPC error code -32002.
C19_StateErrorsReport32002 ==
    (/\ mcpCall.op \in {"transition", "require", "require_ready"}
     /\ ~mcpCall.result.ok)
    => McpErrorCode(FromStateError(mcpCall.result.err)) = -32002

\* C20: handle called with a method name outside the method table returns
\* MethodNotFound(method), whose JSON-RPC code is -32601, whatever the
\* lifecycle state, and leaves the lifecycle state as it was.
C20_UnknownMethodNotFound ==
    (mcpCall.op = "handle" /\ mcpCall.method \notin McpMethodTable)
    => /\ ~mcpCall.result.ok
       /\ mcpCall.result.err = [kind |-> "MethodNotFound",
                                method |-> mcpCall.method]
       /\ McpErrorCode(mcpCall.result.err) = -32601
       /\ mcpState = mcpCall.from

\* C20 witness: "unknown/method" has been handled after the lifecycle
\* reached ShuttingDown, and the state is still ShuttingDown
C20_Witness ==
    /\ mcpCall.op = "handle"
    /\ mcpCall.method = "unknown/method"
    /\ mcpCall.from = "ShuttingDown"
    /\ mcpState = "ShuttingDown"
    /\ ~mcpCall.result.ok

\* C29: each of the ten methods of the method table makes handle return
\* NotImplemented (naming the method), whatever the lifecycle state, and
\* leaves the lifecycle state as it was.
C29_TableMethodsNotImplemented ==
    /\ Cardinality(McpMethodTable) = 10
    /\ (mcpCall.op = "handle" /\ mcpCall.method \in McpMethodTable)
       => /\ mcpCall.result = [ok |-> FALSE,
                               err |-> [kind |-> "NotImplemented",
                                        method |-> mcpCall.method]]
          /\ mcpState = mcpCall.from

\* C29 witness: tools/call has been handled in Ready, returned
\* NotImplemented, and the state is still Ready
C29_Witness ==
    /\ mcpCall.op = "handle"
    /\ mcpCall.method = "tools/call"
    /\ mcpCall.from = "Ready"
    /\ mcpCall.result.err.kind = "NotImplemented"
    /\ mcpState = "Ready"

----------------------------------------------------------------------------
(* Plexus router: src/src/plexus/plexus.rs *)

\* A method string is a sequence of tokens, each "." or a name without '.';
\* two names are never adjacent, so the text before the first "." is one
\* token or empty.

\* index of the first "." of m, 0 when there is none
FirstDot(m) ==
    IF \E i \in 1..Len(m) : m[i] = "."
    THEN CHOOSE i \in 1..Len(m) :
            m[i] = "." /\ \A j \in 1..(i - 1) : m[j] # "."
    ELSE 0

PlexusErr(kind, arg) == [ok |-> FALSE, err |-> [kind |-> kind, arg |-> arg]]

\* parse_method that splits at every '.' and keeps the first and last part
parse_method_split_all(m) ==
    LET d == FirstDot(m) IN
    IF d = 0
    THEN PlexusErr("InvalidParams", <<"Invalid method format: ", m>>)
    ELSE [ok |-> TRUE,
          namespace |-> IF d = 1 THEN "" ELSE m[1],
          method_name |-> IF m[Len(m)] = "." THEN << >> ELSE <<m[Len(m)]>>]

\* Plexus::parse_method: splitn(2, '.') and its length check
parse_method(m) ==
    LET d == FirstDot(m) IN
    IF d = 0
    THEN PlexusErr("InvalidParams", <<"Invalid method format: ", m>>)
    ELSE [ok |-> TRUE,
          namespace |-> IF d = 1 THEN "" ELSE m[1],
          method_name |-> SubSeq(m, d + 1, Len(m))]

\* the error printed with {:?} in place of Display
PlexusErrorDebug(e) == <<e.kind, "(", e.arg, ")">>

\* impl Display for PlexusError
PlexusErrorText(e) ==
    CASE e.kind = "ActivationNotFound" -> <<"Activation not found: ", e.arg>>
      [] e.kind = "MethodNotFound" -> <<"Method not found: ", e.arg>>
      [] e.kind = "InvalidParams" -> <<"Invalid params: ", e.arg>>
      [] e.kind = "ExecutionError" -> <<"Execution error: ", e.arg>>
      [] e.kind = "HandleNotSupported" ->
            <<"Handle resolution not supported by activation: ", e.arg>>

\* PlexusStreamItem, with StreamMetadata.provenance; `n` numbers the items
\* of one stream in the order they are yielded
StreamItem(type, recoverable, provenance, n) ==
    [type |-> type, recoverable |-> recoverable, provenance |-> provenance,
     message |-> << >>, n |-> n]

ErrorItem(message, recoverable, provenance) ==
    [type |-> "error", recoverable |-> recoverable, provenance |-> provenance,
     message |-> message, n |-> 0]

DoneItem(provenance) == StreamItem("done", FALSE, provenance, 0)

\* the kinds of item a stream returned by Activation::call may carry
ItemKinds == {"data", "progress", "error_recoverable", "error_fatal", "done"}

KindItem(kind, provenance, n) ==
    CASE kind = "data" -> StreamItem("data", FALSE, provenance, n)
      [] kind = "progress" -> StreamItem("progress", FALSE, provenance, n)
      [] kind = "error_recoverable" -> StreamItem("error", TRUE, provenance, n)
      [] kind = "error_fatal" -> StreamItem("error", FALSE, provenance, n)
      [] kind = "done" -> StreamItem("done", FALSE, provenance, n)

\* Done, or Error with recoverable = false
IsTerminal(item) ==
    \/ item.type = "done"
    \/ item.type = "error" /\ ~item.recoverable

\* what a registered activation's call(method_name, params) may return:
\* an error, or a stream of at most MaxItems items of any kinds
SeqsUpTo(S, n) == UNION {[1..k -> S] : k \in 0..n}

Behaviours ==
    {[ok |-> TRUE, kinds |-> ks] : ks \in SeqsUpTo(ItemKinds, MaxItems)}
    \cup {[ok |-> FALSE, kind |-> k] :
             k \in {"MethodNotFound", "InvalidParams", "ExecutionError"}}

\* ActivationWrapper::call: the registered activation answers
ActivationCall(ns, method_name, beh) ==
    IF beh.ok
    THEN [ok |-> TRUE,
          stream |-> [i \in 1..Len(beh.kinds) |->
                         KindItem(beh.kinds[i], <<ns>>, i)]]
    ELSE PlexusErr(beh.kind, <<ns, method_name>>)

\* wrap_stream over a stream of k events: k Data items
WrapStream(k, provenance) ==
    [ok |-> TRUE,
     stream |-> [i \in 1..k |-> StreamItem("data", FALSE, provenance, i)]]

\* Plexus::route, with Activation::call for Plexus (the "plexus" namespace)
RECURSIVE route(_, _, _, _)
route(acts, method, params, beh) ==
    LET parsed == parse_method(method) IN
    IF ~parsed.ok THEN parsed
    ELSE IF parsed.namespace = "plexus"
    THEN CASE parsed.method_name = <<"call">> ->
                 IF ~params.valid
                 THEN PlexusErr("InvalidParams", <<"CallParams">>)
                 ELSE route(acts, params.method, params.params, beh)
           [] parsed.method_name = <<"hash">> ->
                 WrapStream(1, <<"plexus">>)
           [] parsed.method_name = <<"list_activations">> ->
                 WrapStream(1 + Cardinality(DOMAIN acts), <<"plexus">>)
           [] parsed.method_name = <<"schema">> ->
                 WrapStream(1, <<"plexus">>)
           [] OTHER ->
                 PlexusErr("MethodNotFound", <<"plexus", parsed.method_name>>)
    ELSE IF parsed.namespace \notin DOMAIN acts
    THEN PlexusErr("ActivationNotFound", parsed.namespace)
    ELSE ActivationCall(parsed.namespace, parsed.method_name, beh)

\* the calls route makes to registered activations, in order, each with
\* the namespace it was looked up under and the method name it was given
RECURSIVE RouteInvokes(_, _, _)
RouteInvokes(acts, method, params) ==
    LET parsed == parse_method(method) IN
    IF ~parsed.ok THEN << >>
    ELSE IF parsed.namespace = "plexus"
    THEN IF parsed.method_name = <<"call">> /\ params.valid
         THEN RouteInvokes(acts, params.method, params.params)
         ELSE << >>
    ELSE IF parsed.namespace \notin DOMAIN acts
    THEN << >>
    ELSE <<[namespace |-> parsed.namespace,
            method_name |-> parsed.method_name]>>

\* the registries the builder may hand to the server: Plexus::new() alone,
\* or with the health activation registered
Activation(namespace, version, methods) ==
    [namespace |-> namespace, version |-> version, methods |-> methods]

BuiltRegistries ==
    {[ns \in {} |-> NoCall],
     [ns \in {"health"} |-> Activation("health", "1.0.0", <<"check">>)]}

\* method strings a client may pass to plexus.call, apart from
\* "plexus.call" itself
PlainMethods ==
    {<<"health", ".", "check">>, <<"health", ".", "check", ".", "x">>,
     <<"missing", ".", "x">>, <<"health">>, <<".", "check">>,
     <<"plexus", ".", "hash">>, <<"plexus", ".", "list_activations">>,
     <<"plexus", ".", "schema">>, <<"plexus", ".", "x">>}

\* a params value that does not deserialize into CallParams (JSON null)
NullParams == [valid |-> FALSE]

\* the (method, params) arguments of rpc_call: a plain method, or
\* "plexus.call" whose params are null or name a call nested up to `depth`
RECURSIVE CallsUpTo(_)
CallsUpTo(depth) ==
    {<<m, NullParams>> : m \in PlainMethods \cup {<<"plexus", ".", "call">>}}
    \cup
    IF depth = 0 THEN {}
    ELSE {<<(<<"plexus", ".", "call">>),
            [valid |-> TRUE, method |-> c[1], params |-> c[2]]>> :
             c \in CallsUpTo(depth - 1)}

RpcCalls == CallsUpTo(MaxNest)

RouterInit ==
    /\ activations \in BuiltRegistries
    /\ rtPhase = "idle"
    /\ rtCall = NoCall
    /\ rtRoute = NoCall
    /\ rtStream = << >>
    /\ rtYielded = << >>
    /\ rtSink = << >>
    /\ rtSinkOpen = TRUE
    /\ rtFailed = 0
    /\ McpNew
    /\ BidirNew
    /\ LibNew

\* a sink that hands the client the newest envelope first
SinkSendFront(item) == IF rtSinkOpen THEN <<item>> \o rtSink ELSE rtSink

\* sink.send(raw): the envelope reaches the client unless the subscription
\* is closed, in which case send fails
SinkSend(item) == IF rtSinkOpen THEN Append(rtSink, item) ELSE rtSink

\* the failed sends once one more send has been attempted
SendFails == IF rtSinkOpen THEN rtFailed ELSE rtFailed + 1

\* rpc_call up to tokio::spawn: accept the subscription, route the call
RpcCall(method, params, beh) ==
    /\ rtPhase = "idle"
    /\ UNCHANGED <<mcpVars, bidirVars, libVars, activations, rtSink, rtSinkOpen,
                   rtYielded, rtFailed>>
    /\ rtCall' = [op |-> "rpc_call", method |-> method, params |-> params]
    /\ IF ~rtSinkOpen
       THEN \* pending.accept() failed: rpc_call returns the error
            /\ rtPhase' = "rejected"
            /\ UNCHANGED <<rtRoute, rtStream>>
       ELSE LET stream_result == route(activations, method, params, beh) IN
            /\ rtRoute' = stream_result
            /\ rtStream' = IF stream_result.ok THEN stream_result.stream
                                                ELSE << >>
            /\ rtPhase' = IF stream_result.ok THEN "streaming" ELSE "failed"

\* the spawned task, Ok arm: one turn of `while let Some(item)`, the item
\* is serialized and sent, a failed send breaks out of the loop
TaskForward ==
    /\ rtPhase = "streaming"
    /\ rtStream # << >>
    /\ UNCHANGED <<mcpVars, bidirVars, libVars, activations, rtCall, rtRoute, rtSinkOpen>>
    /\ rtYielded' = Append(rtYielded, Head(rtStream))
    /\ rtStream' = Tail(rtStream)
    /\ rtSink' = SinkSend(Head(rtStream))
    /\ rtFailed' = SendFails
    /\ rtPhase' = IF rtSinkOpen THEN "streaming" ELSE "finishing"

\* the spawned task, Ok arm: stream.next() returned None
TaskStreamEnd ==
    /\ rtPhase = "streaming"
    /\ rtStream = << >>
    /\ UNCHANGED <<mcpVars, bidirVars, libVars, activations, rtCall, rtRoute, rtSinkOpen,
                   rtStream, rtYielded, rtSink, rtFailed>>
    /\ rtPhase' = "finishing"

\* the spawned task, Err arm: the routing error goes out as an Error item
TaskRouteError ==
    /\ rtPhase = "failed"
    /\ UNCHANGED <<mcpVars, bidirVars, libVars, activations, rtCall, rtRoute, rtSinkOpen,
                   rtStream, rtYielded>>
    /\ rtSink' = SinkSend(ErrorItem(PlexusErrorText(rtRoute.err), FALSE,
                                    <<"plexus">>))
    /\ rtFailed' = SendFails
    /\ rtPhase' = "finishing"

\* a task that ends without sending the Done item
TaskSendDoneSilent ==
    /\ rtPhase = "finishing"
    /\ UNCHANGED <<mcpVars, bidirVars, libVars, activations, rtCall, rtRoute, rtSinkOpen,
                   rtStream, rtYielded, rtSink, rtFailed>>
    /\ rtPhase' = "done"

\* the spawned task after the match: the Done item is sent
TaskSendDone ==
    /\ rtPhase = "finishing"
    /\ UNCHANGED <<mcpVars, bidirVars, libVars, activations, rtCall, rtRoute, rtSinkOpen,
                   rtStream, rtYielded>>
    /\ rtSink' = SinkSend(DoneItem(<<"plexus">>))
    /\ rtFailed' = SendFails
    /\ rtPhase' = "done"

\* the client closes the subscription
Disconnect ==
    /\ rtSinkOpen
    /\ rtPhase # "done"
    /\ rtSinkOpen' = FALSE
    /\ UNCHANGED <<mcpVars, bidirVars, libVars, activations, rtPhase, rtCall, rtRoute, rtStream,
                   rtYielded, rtSink, rtFailed>>

NextRouter ==
    \/ /\ rtPhase = "idle"
       /\ \E c \in RpcCalls, beh \in Behaviours : RpcCall(c[1], c[2], beh)
    \/ TaskForward
    \/ TaskStreamEnd
    \/ TaskRouteError
    \/ TaskSendDone
    \/ Disconnect

SpecRouter == RouterInit /\ [][NextRouter]_vars

\* the spawned task is a tokio task: the runtime keeps polling it, so each
\* of its steps is taken once it stays possible
SpecRouterFair ==
    /\ SpecRouter
    /\ WF_vars(TaskForward)
    /\ WF_vars(TaskStreamEnd)
    /\ WF_vars(TaskRouteError)
    /\ WF_vars(TaskSendDone)

----------------------------------------------------------------------------
(* Subscription adapter: src/src/plugin_system/conversion.rs *)

\* the streams of activation events the adapter may be given: each event
\* becomes an envelope of some kind, at most one of them (the one at
\* position `bad`) does not serialize, and after the last event the stream
\* either ends (next() returns None) or stays pending for good
AdapterStreams ==
    {[kinds |-> ks, bad |-> b, ends |-> e] :
        ks \in SeqsUpTo(ItemKinds, MaxItems), b \in 0..MaxItems,
        e \in BOOLEAN}

\* item.into_plexus_item(provenance, plexus_hash)
IntoPlexusItem(kind, provenance, n) == KindItem(kind, provenance, n)

\* ActivationStreamItem::is_terminal
is_terminal(kind) == kind \in {"done", "error_fatal"}

\* into_subscription up to tokio::spawn: accept the subscription
IntoSubscription(stream, provenance) ==
    /\ rtPhase = "idle"
    /\ UNCHANGED <<mcpVars, bidirVars, libVars, activations, rtRoute, rtSink,
                   rtSinkOpen, rtYielded, rtFailed>>
    /\ rtCall' = [op |-> "into_subscription", provenance |-> provenance,
                  ends |-> stream.ends]
    /\ IF ~rtSinkOpen
       THEN \* pending.accept() failed: into_subscription returns the error
            /\ rtPhase' = "rejected"
            /\ UNCHANGED rtStream
       ELSE /\ rtPhase' = "streaming"
            /\ rtStream' = [i \in DOMAIN stream.kinds |->
                               [kind |-> stream.kinds[i], n |-> i,
                                serializable |-> i # stream.bad]]

\* the spawned task: one turn of `while let Some(item)`; the envelope is
\* serialized and sent, a failed serialization or send leaves the loop
AdapterForward ==
    /\ rtPhase = "streaming"
    /\ rtCall.op = "into_subscription"
    /\ rtStream # << >>
    /\ UNCHANGED <<mcpVars, bidirVars, libVars, activations, rtCall, rtRoute,
                   rtSinkOpen>>
    /\ LET item == Head(rtStream)
           body_item == IntoPlexusItem(item.kind, rtCall.provenance, item.n)
       IN /\ rtYielded' = Append(rtYielded, body_item)
          /\ rtStream' = Tail(rtStream)
          /\ IF item.serializable
             THEN /\ rtSink' = SinkSend(body_item)
                  /\ rtFailed' = SendFails
                  /\ rtPhase' = IF rtSinkOpen THEN "streaming"
                                              ELSE "finishing"
             ELSE /\ UNCHANGED <<rtSink, rtFailed>>
                  /\ rtPhase' = "finishing"

\* the spawned task: stream.next() returned None; a stream that stays
\* pending leaves the task waiting in next()
AdapterStreamEnd ==
    /\ rtPhase = "streaming"
    /\ rtCall.op = "into_subscription"
    /\ rtStream = << >>
    /\ rtCall.ends
    /\ UNCHANGED <<mcpVars, bidirVars, libVars, activations, rtCall, rtRoute,
                   rtSinkOpen, rtStream, rtYielded, rtSink, rtFailed>>
    /\ rtPhase' = "finishing"

\* the spawned task after the loop: the Done envelope is sent
AdapterSendDone ==
    /\ rtPhase = "finishing"
    /\ rtCall.op = "into_subscription"
    /\ UNCHANGED <<mcpVars, bidirVars, libVars, activations, rtCall, rtRoute,
                   rtSinkOpen, rtStream, rtYielded>>
    /\ rtSink' = SinkSend(DoneItem(rtCall.provenance))
    /\ rtFailed' = SendFails
    /\ rtPhase' = "done"

AdapterInit ==
    /\ RouterNew
    /\ McpNew
    /\ BidirNew
    /\ LibNew

NextAdapter ==
    \/ /\ rtPhase = "idle"
       /\ \E stream \in AdapterStreams :
             IntoSubscription(stream, <<"plexus", "health">>)
    \/ AdapterForward
    \/ AdapterStreamEnd
    \/ AdapterSendDone
    \/ Disconnect

SpecAdapter == AdapterInit /\ [][NextAdapter]_vars

\* the adapter's task under the same scheduling
SpecAdapterFair ==
    /\ SpecAdapter
    /\ WF_vars(AdapterForward)
    /\ WF_vars(AdapterStreamEnd)
    /\ WF_vars(AdapterSendDone)

----------------------------------------------------------------------------
(* Plexus registry: register, list_activations, compute_hash *)

\* activations a builder may register; two of them share a namespace
Registrable ==
    {Activation("health", "1.0.0", <<"check">>),
     Activation("health", "2.0.0", <<"check", "ping">>),
     Activation("echo", "1.0.0", <<"echo">>),
     Activation("bash", "1.0.0", <<"execute">>)}

\* Plexus as an activation of itself
PlexusSelf ==
    Activation("plexus", "1.0.0",
               <<"call", "hash", "list_activations", "schema">>)

\* the orders in which a HashMap with key set K may iterate
IterationOrders(K) ==
    {o \in [1..Cardinality(K) -> K] : \A k \in K : \E i \in DOMAIN o : o[i] = k}

\* the tokens of the strings compute_hash builds, in byte order
TokenOrder ==
    <<",", "1.0.0", "2.0.0", ":", ";", "bash", "call", "check", "echo",
      "execute", "hash", "health", "list_activations", "ping", "plexus",
      "schema">>

Rank(t) == CHOOSE i \in DOMAIN TokenOrder : TokenOrder[i] = t

\* a <= b for strings (Ord for String), token by token
RECURSIVE StrLeq(_, _)
StrLeq(a, b) ==
    IF a = << >> THEN TRUE
    ELSE IF b = << >> THEN FALSE
    ELSE IF Head(a) = Head(b) THEN StrLeq(Tail(a), Tail(b))
    ELSE Rank(Head(a)) < Rank(Head(b))

\* [String]::join(sep)
RECURSIVE Join(_, _)
Join(strs, sep) ==
    IF strs = << >> THEN << >>
    ELSE IF Len(strs) = 1 THEN strs[1]
    ELSE strs[1] \o <<sep>> \o Join(Tail(strs), sep)

\* format!("{}:{}:{}", namespace, version, methods.join(","))
EntryString(a) ==
    <<a.namespace, ":", a.version, ":">>
    \o Join([i \in DOMAIN a.methods |-> <<a.methods[i]>>], ",")

\* strs with x put before the first entry that is not below it
RECURSIVE Insert(_, _)
Insert(x, strs) ==
    IF strs = << >> THEN <<x>>
    ELSE IF StrLeq(x, Head(strs)) THEN <<x>> \o strs
    ELSE <<Head(strs)>> \o Insert(x, Tail(strs))

\* strings.sort()
RECURSIVE Sort(_)
Sort(strs) ==
    IF strs = << >> THEN << >> ELSE Insert(Head(strs), Sort(Tail(strs)))

\* DefaultHasher::new() hashing a string, printed as 16 hex digits: the
\* keys are fixed, so the digest is a function of the string alone
DefaultHash(str) == [siphash |-> str]

\* the strings of compute_hash before the sort: plexus itself, then the
\* registered activations as values() yields them
HashStrings(p) ==
    <<EntryString(PlexusSelf)>>
    \o [i \in DOMAIN p.order |-> EntryString(p.acts[p.order[i]])]

\* compute_hash that leaves the strings as the HashMap yields them
compute_hash_unsorted(p) == DefaultHash(Join(HashStrings(p), ";"))

\* Plexus::compute_hash
compute_hash(p) == DefaultHash(Join(Sort(HashStrings(p)), ";"))

\* Plexus::list_activations: plexus itself, then values() as it iterates
list_activations(p) ==
    <<PlexusSelf>> \o [i \in DOMAIN p.order |-> p.acts[p.order[i]]]

\* an insert that keeps the value already bound to the key
HashMapInsertIfAbsent(acts, key, value) ==
    [k \in DOMAIN acts \cup {key} |->
        IF k \in DOMAIN acts THEN acts[k] ELSE value]

\* HashMap::insert(key, value)
HashMapInsert(acts, key, value) ==
    [k \in DOMAIN acts \cup {key} |-> IF k = key THEN value ELSE acts[k]]

\* Plexus::register(activation) on instance p: the activation is bound to
\* its namespace, replacing what was bound there
Register(p, activation) ==
    /\ Len(built[p].log) < MaxRegistrations
    /\ p \notin served
    /\ UNCHANGED <<mcpVars, routerVars, bidirVars, handleVars, hubVars, wz>>
    /\ LET acts == HashMapInsert(built[p].acts, activation.namespace,
                                 activation)
       IN \E order \in IterationOrders(DOMAIN acts) :
             built' = [built EXCEPT ![p] =
                          [acts |-> acts, order |-> order,
                           log |-> Append(built[p].log, activation)]]

RegistryInit ==
    /\ LibNew
    /\ McpNew
    /\ RouterNew
    /\ BidirNew

NextRegistry == \E p \in Instances, a \in Registrable : Register(p, a)

SpecRegistry == RegistryInit /\ [][NextRegistry]_vars

\* register takes the namespace from the activation as it is: activations
\* that name themselves "plexus" or "" are accepted like any other
ReservedNamed ==
    {Activation("plexus", "2.0.0", <<"check">>),
     Activation("", "1.0.0", <<"check">>)}

NextRegistryAny ==
    \E p \in Instances, a \in Registrable \cup ReservedNamed : Register(p, a)

SpecRegistryAny == RegistryInit /\ [][NextRegistryAny]_vars

----------------------------------------------------------------------------
(* The hub in use: PlexusContext, envelopes, the MCP tool catalog *)

\* PlexusContext::init(hash): OnceLock::set, which only the first call wins
\* a cell that takes the value of every init
ContextInitOverwriting(hash) == [set |-> TRUE, hash |-> hash]

ContextInit(hash) ==
    IF context.set THEN context ELSE [set |-> TRUE, hash |-> hash]

\* PlexusInner::pending_rpc: register pushes one factory per call, in call
\* order, whatever the namespace; into_rpc_module takes them all and
\* merges the methods of each
pending_rpc(p) == p.log

\* PlexusContext::hash()
ContextHash == IF context.set THEN context.hash ELSE EmptyString

\* Plexus::into_rpc_module(self) on instance p: publishes the hash and
\* consumes the builder
IntoRpcModule(p) ==
    /\ p \notin served
    /\ served' = served \cup {p}
    /\ context' = ContextInit(compute_hash(built[p]))
    /\ UNCHANGED <<mcpVars, routerVars, bidirVars, built, handleVars,
                   hubCall, wz>>

\* the functions that build the metadata of an envelope for a call on a
\* Plexus: wrap_stream for Data items, rpc_call for the router's Error and
\* Done, Plexus::error_stream
EnvelopeMakers == {"wrap_stream", "rpc_call", "error_stream"}

\* StreamMetadata::new(provenance, <hash>) in `maker`, for a call on
\* instance p: error_stream takes self.compute_hash(), the others
\* PlexusContext::hash()
MakeEnvelope(p, maker) ==
    /\ hubCall' = [op |-> maker, instance |-> p, of |-> built[p],
                   plexus_hash |-> IF maker = "error_stream"
                                   THEN compute_hash(built[p])
                                   ELSE ContextHash]
    /\ UNCHANGED <<mcpVars, routerVars, bidirVars, built, handleVars,
                   context, served, wz>>

\* Plexus::list_full_schemas: plexus itself, then values() as it iterates
list_full_schemas(p) ==
    <<PlexusSelf>> \o [i \in DOMAIN p.order |-> p.acts[p.order[i]]]

\* schemas_to_mcp_tools: flat_map over the schemas, each method of each
\* activation giving the tool named format!("{}.{}", namespace, name)
RECURSIVE schemas_to_mcp_tools(_)
schemas_to_mcp_tools(schemas) ==
    IF schemas = << >> THEN << >>
    ELSE LET activation == Head(schemas) IN
         [i \in DOMAIN activation.methods |->
             <<activation.namespace, ".", activation.methods[i]>>]
         \o schemas_to_mcp_tools(Tail(schemas))

\* the tool catalog of instance p is built
ToolsList(p) ==
    /\ hubCall' = [op |-> "tools/list", instance |-> p, of |-> built[p],
                   tools |-> schemas_to_mcp_tools(
                                 list_full_schemas(built[p]))]
    /\ UNCHANGED <<mcpVars, routerVars, bidirVars, built, handleVars,
                   context, served, wz>>

HubInit ==
    /\ LibNew
    /\ McpNew
    /\ RouterNew
    /\ BidirNew

NextHub ==
    \/ \E p \in Instances, a \in Registrable : Register(p, a)
    \/ \E p \in Instances : IntoRpcModule(p)
    \/ \E p \in Instances, maker \in EnvelopeMakers : MakeEnvelope(p, maker)
    \/ \E p \in Instances : ToolsList(p)

SpecHub == HubInit /\ [][NextHub]_vars

----------------------------------------------------------------------------
(* Handle: src/src/types.rs *)

\* the characters of the model: a letter, a digit and the two delimiters
Chars == {"a", "1", "@", ":"}

\* the strings of 1 to n characters
StringsUpTo(n) == UNION {[1..k -> Chars] : k \in 1..n}

\* version strings
Versions == {<<"1">>, <<"1", ":">>, <<":", ":">>, <<"@">>}

\* strings a meta list may hold
MetaStrings == {<< >>, <<"a">>, <<":">>, <<"a", ":", "a">>}

\* handles with non-empty plugin, version and method
Handles ==
    [plugin : StringsUpTo(MaxFieldLen), version : Versions,
     method : StringsUpTo(MaxFieldLen), meta : SeqsUpTo(MetaStrings, MaxMeta)]

\* write!(f, ":{}", m) for each m of meta
RECURSIVE DisplayMeta(_)
DisplayMeta(meta) ==
    IF meta = << >> THEN << >>
    ELSE <<":">> \o Head(meta) \o DisplayMeta(Tail(meta))

\* impl Display for Handle
Display(h) ==
    h.plugin \o <<"@">> \o h.version \o <<":", ":">> \o h.method
    \o DisplayMeta(h.meta)

\* the first index at which pat occurs in str, 0 when it does not
Find(str, pat) ==
    LET hits == {i \in 1..(Len(str) - Len(pat) + 1) :
                    SubSeq(str, i, i + Len(pat) - 1) = pat}
    IN  IF hits = {} THEN 0
        ELSE CHOOSE i \in hits : \A j \in hits : i <= j

\* str::split(':') collected
RECURSIVE Split(_)
Split(str) ==
    LET i == Find(str, <<":">>) IN
    IF i = 0 THEN <<str>>
    ELSE <<SubSeq(str, 1, i - 1)>> \o Split(SubSeq(str, i + 1, Len(str)))

\* impl FromStr for Handle
from_str(str) ==
    LET at == Find(str, <<"@">>) IN
    IF at = 0
    THEN [op |-> "parse", ok |-> FALSE, err |-> "missing '@'"]
    ELSE
    LET plugin == SubSeq(str, 1, at - 1)
        rest == SubSeq(str, at + 1, Len(str))
        sep == Find(rest, <<":", ":">>)
    IN  IF sep = 0
        THEN [op |-> "parse", ok |-> FALSE, err |-> "missing '::'"]
        ELSE
        LET version == SubSeq(rest, 1, sep - 1)
            parts == Split(SubSeq(rest, sep + 2, Len(rest)))
        IN  [op |-> "parse", ok |-> TRUE,
             value |-> [plugin |-> plugin, version |-> version,
                        method |-> Head(parts), meta |-> Tail(parts)]]

\* handle.to_string()
to_string ==
    /\ hText = << >>
    /\ hText' = Display(handle)
    /\ UNCHANGED <<mcpVars, routerVars, bidirVars, built, handle, hParsed,
                   hubVars, wz>>

\* hText.parse::<Handle>()
Parse ==
    /\ hText # << >>
    /\ hParsed = NoCall
    /\ hParsed' = from_str(hText)
    /\ UNCHANGED <<mcpVars, routerVars, bidirVars, built, handle, hText,
                   hubVars, wz>>

HandleInit ==
    /\ handle \in Handles
    /\ hText = << >>
    /\ hParsed = NoCall
    /\ RegistryNew
    /\ HubNew
    /\ WizardNew
    /\ McpNew
    /\ RouterNew
    /\ BidirNew

NextHandle == to_string \/ Parse

SpecHandle == HandleInit /\ [][NextHandle]_vars

\* a string from outside is about to be parsed
HandleParseInit ==
    /\ hText \in StringsUpTo(MaxTextLen)
    /\ handle = [plugin |-> <<"a">>, version |-> <<"1">>,
                 method |-> <<"a">>, meta |-> << >>]
    /\ hParsed = NoCall
    /\ RegistryNew
    /\ HubNew
    /\ WizardNew
    /\ McpNew
    /\ RouterNew
    /\ BidirNew

SpecHandleParse == HandleParseInit /\ [][Parse]_vars

----------------------------------------------------------------------------
(* Bidirectional channel: specification section 4.4, exercised by          *)
(* src/tests/bidirectional_integration.rs                                  *)

\* is_bidirectional that ignores the flag the channel was created with
IsBidirectionalAlways(c) == TRUE

\* BidirChannel::is_bidirectional
IsBidirectional(c) == c # "plain"

\* timeouts passed to request_with_timeout, as Durations in microseconds
Durations == {10000, 100500}

\* the timeout of request and of the helpers, in microseconds
DefaultTimeout == 30000000

\* the calls that issue a request: request_with_timeout with each timeout,
\* request and the three helpers with the default one
RequestCalls ==
    {<<"request_with_timeout", d>> : d \in Durations}
    \cup {<<api, DefaultTimeout>> :
              api \in {"request", "confirm", "prompt", "select"}}

\* Duration::as_micros in place of as_millis
AsMicros(d) == d

\* Duration::as_millis
AsMillis(d) == d \div 1000

\* the five entry points that issue a request
Apis == {"request", "request_with_timeout", "confirm", "prompt", "select"}

\* the StandardRequest an entry point sends: a helper builds its own, the
\* caller of request and request_with_timeout passes one (a Confirm here)
RequestOf(api) ==
    CASE api = "confirm" -> "confirm"
      [] api = "prompt" -> "prompt"
      [] api = "select" -> "select"
      [] OTHER -> "confirm"

\* the payload {"invalid": "data"} of test_malformed_response_handling
Malformed == [invalid |-> "data"]

\* JSON payloads a responder may deliver: the four StandardResponse
\* variants and an object that is no StandardResponse
Payloads ==
    {[type |-> "confirmed", value |-> "true"],
     [type |-> "text", value |-> "a"],
     [type |-> "selected", values |-> <<"a">>],
     [type |-> "cancelled"],
     Malformed}

\* the payloads delivered in the concurrent runs: one response, one object
\* that is no response
RacePayloads == {[type |-> "confirmed", value |-> "true"], Malformed}

\* the timeout of the concurrent runs: Duration::from_millis(10)
RaceTimeout == 10000

ResponseTypes == {"confirmed", "text", "selected", "cancelled"}

\* a deserializer that accepts any JSON object
DeserializeLenient(payload) == [ok |-> TRUE, value |-> payload]

\* serde_json::from_value::<StandardResponse>(payload)
Deserialize(payload) ==
    IF "type" \in DOMAIN payload /\ payload.type \in ResponseTypes
    THEN [ok |-> TRUE, value |-> payload]
    ELSE [ok |-> FALSE]

BidirErr(kind) == [ok |-> FALSE, err |-> [kind |-> kind]]

\* the content of a Confirmed, Text or Selected response
ResponseContent(resp) ==
    IF resp.type = "selected" THEN resp.values ELSE resp.value

\* the response variant a helper expects
Expected(api) ==
    CASE api = "confirm" -> "confirmed"
      [] api = "prompt" -> "text"
      [] api = "select" -> "selected"

\* helpers that hand back whatever response was delivered, as request does
ApiResultPassThrough(api, resp) == [ok |-> TRUE, value |-> resp]

\* what the entry point returns for a delivered response: request and
\* request_with_timeout return it as it is, the helpers unwrap their own
\* variant, turn Cancelled into Err(Cancelled) and reject the rest
ApiResult(api, resp) ==
    IF api \in {"request", "request_with_timeout"}
    THEN [ok |-> TRUE, value |-> resp]
    ELSE IF resp.type = Expected(api) THEN [ok |-> TRUE, value |-> ResponseContent(resp)]
    ELSE IF resp.type = "cancelled" THEN BidirErr("Cancelled")
    ELSE BidirErr("TypeMismatch")

\* a fresh request id (UUID v4)
\* an id source that hands out the id of the first request again
FreshIdOfFirst == IF bdReqs = << >> THEN bdNextId ELSE bdReqs[1].id

FreshId == bdNextId

EmptySlot == [state |-> "empty"]

\* PlexusStreamItem::Request
RequestItem(id, req, d) ==
    [type |-> "request", request_id |-> id, request_data |-> req,
     timeout_ms |-> AsMillis(d)]

\* request / request_with_timeout / confirm / prompt / select, up to the
\* insertion of the slot: NotSupported on a channel that is not
\* bidirectional, else a fresh id whose slot enters the correlator
IssueRequest(c, api, d) ==
    /\ UNCHANGED <<mcpVars, routerVars, hostVars, bdSink, bdSinkOpen>>
    /\ IF ~IsBidirectional(c)
       THEN /\ bdCall' = [op |-> api, result |-> BidirErr("NotSupported")]
            /\ UNCHANGED <<bdPending, bdNextId, bdReqs>>
       ELSE /\ LET id == FreshId IN
               /\ bdPending' = [bdPending EXCEPT
                                   ![Correlator(c)] = @ \cup {id}]
               /\ bdReqs' = Append(bdReqs,
                     [id |-> id, chan |-> c, api |-> api,
                      req |-> RequestOf(api), d |-> d,
                      st |-> "inserted", slot |-> EmptySlot,
                      result |-> NoCall])
            /\ bdNextId' = bdNextId + 1
            /\ UNCHANGED bdCall

\* a request call made by a caller other than the wizard, while the run
\* has requests left
BeginRequest(c, api, d) ==
    /\ IsBidirectional(c) => Len(bdReqs) < MaxRequests
    /\ IssueRequest(c, api, d)
    /\ UNCHANGED wz

\* a request call that does not look at the outcome of the send
EmitRequestUnchecked(i) ==
    /\ bdReqs[i].st = "inserted"
    /\ UNCHANGED <<mcpVars, routerVars, libVars, bdNextId, bdSinkOpen, bdCall,
                   bdPending>>
    /\ LET r == bdReqs[i] IN
       /\ bdSink' = [bdSink EXCEPT ![r.chan] =
                        IF bdSinkOpen[r.chan]
                        THEN Append(@, RequestItem(r.id, r.req, r.d))
                        ELSE @]
       /\ bdReqs' = [bdReqs EXCEPT ![i].st = "waiting"]

\* the request call emits its Request envelope; a closed sink fails the
\* call with Transport and takes the slot out again
EmitRequest(i) ==
    /\ bdReqs[i].st = "inserted"
    /\ UNCHANGED <<mcpVars, routerVars, libVars, bdNextId, bdSinkOpen, bdCall>>
    /\ LET r == bdReqs[i] IN
       IF bdSinkOpen[r.chan]
       THEN /\ bdSink' = [bdSink EXCEPT ![r.chan] =
                             Append(@, RequestItem(r.id, r.req, r.d))]
            /\ bdReqs' = [bdReqs EXCEPT ![i].st = "waiting"]
            /\ UNCHANGED bdPending
       ELSE /\ bdPending' = [bdPending EXCEPT
                                ![Correlator(r.chan)] = @ \ {r.id}]
            /\ bdReqs' = [bdReqs EXCEPT ![i].st = "done",
                                        ![i].result = BidirErr("Transport")]
            /\ UNCHANGED bdSink

\* what delivering `payload` does to the slot of a request call
SlotAfter(payload) ==
    LET des == Deserialize(payload) IN
    IF des.ok THEN [state |-> "filled", value |-> des.value]
              ELSE [state |-> "dropped"]

\* Respond that delivers without removing the slot from the correlator
RespondKeeping(op, k, id, payload) ==
    /\ UNCHANGED <<mcpVars, routerVars, libVars, bdNextId, bdSink, bdSinkOpen>>
    /\ IF id \notin bdPending[k]
       THEN /\ bdCall' = [op |-> op,
                          result |-> BidirErr("UnknownRequest")]
            /\ UNCHANGED <<bdPending, bdReqs>>
       ELSE /\ UNCHANGED bdPending
            /\ bdReqs' = [i \in 1..Len(bdReqs) |->
                            IF /\ bdReqs[i].id = id
                               /\ Correlator(bdReqs[i].chan) = k
                               /\ bdReqs[i].st # "done"
                            THEN [bdReqs[i] EXCEPT !.slot = SlotAfter(payload)]
                            ELSE bdReqs[i]]
            /\ bdCall' = [op |-> op,
                          result |-> IF Deserialize(payload).ok
                                     THEN [ok |-> TRUE]
                                     ELSE BidirErr("TypeMismatch")]

\* Respond that empties the correlator when it meets an unknown id
RespondResetting(op, k, id, payload) ==
    /\ UNCHANGED <<mcpVars, routerVars, libVars, bdNextId, bdSink, bdSinkOpen>>
    /\ IF id \notin bdPending[k]
       THEN /\ bdCall' = [op |-> op,
                          result |-> BidirErr("UnknownRequest")]
            /\ bdPending' = [bdPending EXCEPT ![k] = {}]
            /\ UNCHANGED bdReqs
       ELSE /\ bdPending' = [bdPending EXCEPT ![k] = @ \ {id}]
            /\ bdReqs' = [i \in 1..Len(bdReqs) |->
                            IF /\ bdReqs[i].id = id
                               /\ Correlator(bdReqs[i].chan) = k
                               /\ bdReqs[i].st # "done"
                            THEN [bdReqs[i] EXCEPT !.slot = SlotAfter(payload)]
                            ELSE bdReqs[i]]
            /\ bdCall' = [op |-> op,
                          result |-> IF Deserialize(payload).ok
                                     THEN [ok |-> TRUE]
                                     ELSE BidirErr("TypeMismatch")]

\* the shared body of handle_response and handle_pending_response on one
\* correlator: find and remove the slot, deserialize, deliver
Respond(op, k, id, payload) ==
    /\ UNCHANGED <<mcpVars, routerVars, libVars, bdNextId, bdSink, bdSinkOpen>>
    /\ IF id \notin bdPending[k]
       THEN /\ bdCall' = [op |-> op,
                          result |-> BidirErr("UnknownRequest")]
            /\ UNCHANGED <<bdPending, bdReqs>>
       ELSE /\ bdPending' = [bdPending EXCEPT ![k] = @ \ {id}]
            /\ bdReqs' = [i \in 1..Len(bdReqs) |->
                            IF /\ bdReqs[i].id = id
                               /\ Correlator(bdReqs[i].chan) = k
                               /\ bdReqs[i].st # "done"
                            THEN [bdReqs[i] EXCEPT !.slot = SlotAfter(payload)]
                            ELSE bdReqs[i]]
            /\ bdCall' = [op |-> op,
                          result |-> IF Deserialize(payload).ok
                                     THEN [ok |-> TRUE]
                                     ELSE BidirErr("TypeMismatch")]

\* BidirChannel::handle_response(id, payload) on channel c
HandleResponse(c, id, payload) ==
    Respond("handle_response", Correlator(c), id, payload)

\* handle_pending_response(id, payload) on the process-wide registry
HandlePendingResponse(id, payload) ==
    Respond("handle_pending_response", "registry", id, payload)

\* the waiting request call receives what was delivered to its slot, or
\* finds the slot's sender gone
CompleteRequest(i) ==
    /\ bdReqs[i].st = "waiting"
    /\ bdReqs[i].slot.state # "empty"
    /\ UNCHANGED <<mcpVars, routerVars, libVars, bdPending, bdNextId, bdSink,
                   bdSinkOpen, bdCall>>
    /\ bdReqs' = [bdReqs EXCEPT
          ![i].st = "done",
          ![i].slot = EmptySlot,
          ![i].result = IF bdReqs[i].slot.state = "filled"
                        THEN ApiResult(bdReqs[i].api, bdReqs[i].slot.value)
                        ELSE BidirErr("Transport")]

\* TimeoutRequest that returns Timeout and leaves the slot in the correlator
TimeoutRequestLeaking(i) ==
    /\ bdReqs[i].st = "waiting"
    /\ bdReqs[i].slot.state = "empty"
    /\ UNCHANGED <<mcpVars, routerVars, libVars, bdNextId, bdSink, bdSinkOpen, bdCall,
                   bdPending>>
    /\ bdReqs' = [bdReqs EXCEPT
          ![i].st = "done",
          ![i].result = [ok |-> FALSE,
                         err |-> [kind |-> "Timeout",
                                  ms |-> AsMillis(bdReqs[i].d)]]]

\* the timeout of a waiting request call expires before a delivery: the
\* slot is removed and the call returns Timeout(d.as_millis())
TimeoutRequest(i) ==
    /\ bdReqs[i].st = "waiting"
    /\ bdReqs[i].slot.state = "empty"
    /\ UNCHANGED <<mcpVars, routerVars, libVars, bdNextId, bdSink, bdSinkOpen, bdCall>>
    /\ bdPending' = [bdPending EXCEPT
                        ![Correlator(bdReqs[i].chan)] = @ \ {bdReqs[i].id}]
    /\ bdReqs' = [bdReqs EXCEPT
          ![i].st = "done",
          ![i].result = [ok |-> FALSE,
                         err |-> [kind |-> "Timeout",
                                  ms |-> AsMillis(bdReqs[i].d)]]]

\* the receiver of a channel's sink is dropped
DropReceiver(c) ==
    /\ bdSinkOpen[c]
    /\ bdSinkOpen' = [bdSinkOpen EXCEPT ![c] = FALSE]
    /\ UNCHANGED <<mcpVars, routerVars, libVars, bdPending, bdNextId, bdReqs, bdSink,
                   bdCall>>

\* an id that no request was issued under ("wrong-id-12345")
WrongId == 0

\* ids a responder may name: those it has seen in a Request envelope, and
\* one that was never issued
ResponderIds ==
    UNION {{bdSink[c][n].request_id : n \in 1..Len(bdSink[c])} : c \in Chans}
    \cup {WrongId}

BidirInit ==
    /\ BidirNew
    /\ McpNew
    /\ RouterNew
    /\ LibNew

\* every request call made so far has returned
AllReturned == \A i \in 1..Len(bdReqs) : bdReqs[i].st = "done"

\* concurrent request_with_timeout calls on the direct channel and on the
\* channel of the process-wide registry, answered through handle_response
\* (on any channel) and handle_pending_response
NextBidir ==
    \/ \E c \in {"direct", "global"} :
          BeginRequest(c, "request_with_timeout", RaceTimeout)
    \/ \E i \in 1..Len(bdReqs) : EmitRequest(i)
    \/ \E c \in Chans, id \in ResponderIds, payload \in RacePayloads :
          HandleResponse(c, id, payload)
    \/ \E id \in ResponderIds, payload \in RacePayloads :
          HandlePendingResponse(id, payload)
    \/ \E i \in 1..Len(bdReqs) : CompleteRequest(i)
    \/ \E i \in 1..Len(bdReqs) : TimeoutRequest(i)

SpecBidir == BidirInit /\ [][NextBidir]_vars

\* one call after the other through each of the five entry points, with
\* receivers that may be dropped
NextBidirApi ==
    \/ /\ AllReturned
       /\ \E c \in Chans, call \in RequestCalls :
             BeginRequest(c, call[1], call[2])
    \/ \E i \in 1..Len(bdReqs) : EmitRequest(i)
    \/ \E c \in Chans, id \in ResponderIds, payload \in Payloads :
          HandleResponse(c, id, payload)
    \/ \E id \in ResponderIds, payload \in Payloads :
          HandlePendingResponse(id, payload)
    \/ \E i \in 1..Len(bdReqs) : CompleteRequest(i)
    \/ \E i \in 1..Len(bdReqs) : TimeoutRequest(i)
    \/ \E c \in {"direct", "global"} : DropReceiver(c)

SpecBidirApi == BidirInit /\ [][NextBidirApi]_vars

----------------------------------------------------------------------------
(* Interactive::wizard: src/src/activations/interactive/activation.rs      *)

\* responses a client may give the wizard: the StandardResponse variants,
\* among them an empty text, an empty selection and a refusal
WizardPayloads ==
    {[type |-> "text", value |-> "my-project"],
     [type |-> "text", value |-> ""],
     [type |-> "selected", values |-> <<"minimal">>],
     [type |-> "selected", values |-> <<"full", "api">>],
     [type |-> "selected", values |-> << >>],
     [type |-> "confirmed", value |-> "true"],
     [type |-> "confirmed", value |-> "false"],
     [type |-> "cancelled"]}

\* the wizard's three requests, in the order it makes them
WizardCalls == <<"prompt", "select", "confirm">>

\* a wizard that yields a progress event as soon as it has issued a request
WizardCallAnnouncing(api) ==
    /\ wz.pc = api
    /\ IssueRequest(wz.ctx, api, DefaultTimeout)
    /\ wz' = [wz EXCEPT !.pc = "await",
                        !.events = Append(@, [event |-> "asking"])]

\* the generator runs into ctx.prompt / ctx.select / ctx.confirm and is
\* suspended in its .await
WizardCall(api) ==
    /\ wz.pc = api
    /\ IssueRequest(wz.ctx, api, DefaultTimeout)
    /\ wz' = [wz EXCEPT !.pc = "await"]

\* yield ev, then stop at the next suspension point
Yield(ev, pc) == wz' = [wz EXCEPT !.events = Append(@, ev), !.pc = pc]

\* a wizard that reports a failed request and goes on to the next step
WizardOnErrContinuing(api, err) ==
    Yield([event |-> "error", message |-> err.kind],
          IF api = "prompt" THEN "select"
          ELSE IF api = "select" THEN "confirm" ELSE "end")

\* the arm of every match for an error: Cancelled yields Cancelled,
\* NotSupported on the first request its own message, the rest the error's
WizardOnErr(api, err) ==
    IF err.kind = "Cancelled" THEN Yield([event |-> "cancelled"], "end")
    ELSE IF err.kind = "NotSupported" /\ api = "prompt"
    THEN Yield([event |-> "error", message |-> "Interactive mode required"],
               "end")
    ELSE Yield([event |-> "error", message |-> err.kind], "end")

\* first poll: yield WizardEvent::Started
WizardStarted ==
    /\ wz.pc = "start"
    /\ Yield([event |-> "started"], "prompt")
    /\ UNCHANGED <<mcpVars, routerVars, bidirVars, hostVars>>

\* the awaited call (the last one issued; on a channel that is not
\* bidirectional the first one, which returned NotSupported at once) has
\* returned: the match on its result, up to the yield it runs into
WizardResume ==
    /\ wz.pc = "await"
    /\ IsBidirectional(wz.ctx) => bdReqs[Len(bdReqs)].st = "done"
    /\ UNCHANGED <<mcpVars, routerVars, bidirVars, hostVars>>
    /\ LET api == WizardCalls[IF IsBidirectional(wz.ctx) THEN Len(bdReqs)
                                                         ELSE 1]
           res == IF IsBidirectional(wz.ctx) THEN bdReqs[Len(bdReqs)].result
                                             ELSE BidirErr("NotSupported")
       IN  IF ~res.ok THEN WizardOnErr(api, res.err)
           ELSE CASE api = "prompt" ->
                       IF res.value = ""
                       THEN Yield([event |-> "error",
                                   message |-> "Name cannot be empty"], "end")
                       ELSE Yield([event |-> "name_collected",
                                   name |-> res.value], "select")
                  [] api = "select" ->
                       IF res.value # << >>
                       THEN Yield([event |-> "template_selected",
                                   template |-> Head(res.value)], "confirm")
                       ELSE Yield([event |-> "error",
                                   message |-> "No template selected"], "end")
                  [] api = "confirm" ->
                       IF res.value = "true"
                       THEN Yield([event |-> "created",
                                   name |-> bdReqs[1].result.value,
                                   template |->
                                       Head(bdReqs[2].result.value)],
                                  "done")
                       ELSE Yield([event |-> "cancelled"], "end")

\* a wizard whose stream ends after Created without a Done event
WizardDoneSilent ==
    /\ wz.pc = "done"
    /\ wz' = [wz EXCEPT !.pc = "end"]
    /\ UNCHANGED <<mcpVars, routerVars, bidirVars, hostVars>>

\* yield WizardEvent::Done, after which the stream ends
WizardDone ==
    /\ wz.pc = "done"
    /\ Yield([event |-> "done"], "end")
    /\ UNCHANGED <<mcpVars, routerVars, bidirVars, hostVars>>

WizardInit ==
    /\ wz \in {[ctx |-> c, pc |-> "start", events |-> << >>] : c \in Chans}
    /\ BidirNew
    /\ McpNew
    /\ RouterNew
    /\ RegistryNew
    /\ HandleNew
    /\ HubNew

\* the wizard on one channel, its requests answered, timed out or cut off
\* by a dropped receiver
NextWizard ==
    \/ WizardStarted
    \/ \E api \in {"prompt", "select", "confirm"} : WizardCall(api)
    \/ WizardResume
    \/ WizardDone
    \/ \E i \in 1..Len(bdReqs) : EmitRequest(i)
    \/ \E id \in ResponderIds, payload \in WizardPayloads :
          HandleResponse(wz.ctx, id, payload)
    \/ \E i \in 1..Len(bdReqs) : CompleteRequest(i)
    \/ \E i \in 1..Len(bdReqs) : TimeoutRequest(i)
    \/ DropReceiver(wz.ctx)

SpecWizard == WizardInit /\ [][NextWizard]_vars

\* Interactive::delete(ctx, paths): the generator's position and the events
\* it has yielded are kept in wz, with the paths it was called with
DeletePaths == {<< >>, <<"file.txt">>, <<"file1.txt", "file2.txt">>}

\* first poll: Done at once for an empty list, else the generator is
\* suspended in ctx.confirm(..).await
DeleteStart ==
    /\ wz.pc = "start"
    /\ IF wz.paths = << >>
       THEN /\ Yield([event |-> "done"], "end")
            /\ UNCHANGED <<mcpVars, routerVars, bidirVars, hostVars>>
       ELSE /\ IssueRequest(wz.ctx, "confirm", DefaultTimeout)
            /\ wz' = [wz EXCEPT !.pc = "await"]

\* a delete that goes ahead on any answer to its confirm request
DeleteResumeAnyAnswer ==
    /\ wz.pc = "await"
    /\ IsBidirectional(wz.ctx) => bdReqs[Len(bdReqs)].st = "done"
    /\ UNCHANGED <<mcpVars, routerVars, bidirVars, hostVars>>
    /\ IF IsBidirectional(wz.ctx) /\ bdReqs[Len(bdReqs)].result.ok
       THEN Yield([event |-> "deleted", path |-> wz.paths[1]], "deleting")
       ELSE Yield([event |-> "cancelled"], "end")

\* the confirm call has returned: Ok(true) enters the loop over the paths
\* and runs into its first yield, every other result yields Cancelled
DeleteResume ==
    /\ wz.pc = "await"
    /\ IsBidirectional(wz.ctx) => bdReqs[Len(bdReqs)].st = "done"
    /\ UNCHANGED <<mcpVars, routerVars, bidirVars, hostVars>>
    /\ LET res == IF IsBidirectional(wz.ctx) THEN bdReqs[Len(bdReqs)].result
                                             ELSE BidirErr("NotSupported")
       IN  IF res.ok /\ res.value = "true"
           THEN Yield([event |-> "deleted", path |-> wz.paths[1]],
                      "deleting")
           ELSE Yield([event |-> "cancelled"], "end")

\* the loop goes on: the next path's Deleted, or Done after the last one
DeleteNextPath ==
    /\ wz.pc = "deleting"
    /\ UNCHANGED <<mcpVars, routerVars, bidirVars, hostVars>>
    /\ LET n == Len(wz.events) + 1 IN
       IF n <= Len(wz.paths)
       THEN Yield([event |-> "deleted", path |-> wz.paths[n]], "deleting")
       ELSE Yield([event |-> "done"], "end")

DeleteInit ==
    /\ wz \in {[ctx |-> c, pc |-> "start", events |-> << >>, paths |-> ps] :
                  c \in Chans, ps \in DeletePaths}
    /\ BidirNew
    /\ McpNew
    /\ RouterNew
    /\ RegistryNew
    /\ HandleNew
    /\ HubNew

NextDelete ==
    \/ DeleteStart
    \/ DeleteResume
    \/ DeleteNextPath
    \/ \E i \in 1..Len(bdReqs) : EmitRequest(i)
    \/ \E id \in ResponderIds, payload \in WizardPayloads :
          HandleResponse(wz.ctx, id, payload)
    \/ \E i \in 1..Len(bdReqs) : CompleteRequest(i)
    \/ \E i \in 1..Len(bdReqs) : TimeoutRequest(i)
    \/ DropReceiver(wz.ctx)

SpecDelete == DeleteInit /\ [][NextDelete]_vars

----------------------------------------------------------------------------
(* Claims about the bidirectional channel *)

\* the request calls of correlator k that still await a delivery: their
\* slot was inserted and neither a response nor the timeout has come
Awaiting(k) ==
    {i \in 1..Len(bdReqs) :
        /\ Correlator(bdReqs[i].chan) = k
        /\ bdReqs[i].st \in {"inserted", "waiting"}
        /\ bdReqs[i].slot.state = "empty"}

\* C5: in every reachable state of the channel-local maps and of the
\* process-wide registry, an id is pending exactly when its request has been
\* issued and has not completed by response or timeout (so it is pending
\* once its Request envelope is out), and no id is issued twice.
C5_PendingExactlyWhileOutstanding ==
    /\ \A k \in Correlators :
          bdPending[k] = {bdReqs[i].id : i \in Awaiting(k)}
    /\ \A i, j \in 1..Len(bdReqs) : bdReqs[i].id = bdReqs[j].id => i = j
    /\ \A c \in Chans : \A m, n \in 1..Len(bdSink[c]) :
          bdSink[c][m].request_id = bdSink[c][n].request_id => m = n

\* C5 witness: one request has timed out and left the registry while a
\* later one, whose Request envelope is out, is pending in it
C5_Witness ==
    \E i, j \in 1..Len(bdReqs) :
        /\ bdReqs[i].chan = "global" /\ bdReqs[j].chan = "global"
        /\ bdReqs[i].st = "done"
        /\ ~bdReqs[i].result.ok /\ bdReqs[i].result.err.kind = "Timeout"
        /\ bdReqs[i].id \notin bdPending["registry"]
        /\ bdReqs[j].st = "waiting"
        /\ bdReqs[j].id \in bdPending["registry"]
        /\ \E n \in 1..Len(bdSink["global"]) :
              bdSink["global"][n].request_id = bdReqs[j].id

\* the request call i gets its response delivered in this step
DeliveredNow(i) ==
    /\ bdReqs[i].slot.state = "empty"
    /\ bdReqs'[i].slot.state = "filled"
    /\ bdReqs'[i].st = bdReqs[i].st

\* the request call i gets a payload of the wrong type in this step
MismatchedNow(i) ==
    /\ bdReqs[i].slot.state = "empty"
    /\ bdReqs'[i].slot.state = "dropped"
    /\ bdReqs'[i].st = bdReqs[i].st

\* the request call i times out in this step
TimedOutNow(i) ==
    /\ bdReqs[i].st = "waiting"
    /\ bdReqs[i].slot.state = "empty"
    /\ bdReqs'[i].st = "done"
    /\ ~bdReqs'[i].result.ok
    /\ bdReqs'[i].result.err.kind = "Timeout"

\* the responder names the id of request call i on that call's correlator
Answers(c, id, i) ==
    /\ bdReqs[i].id = id
    /\ Correlator(bdReqs[i].chan) = Correlator(c)

C7_TimeoutCleansUp ==
    /\ \A i \in 1..Len(bdReqs) :
          (/\ bdReqs[i].st = "done"
           /\ ~bdReqs[i].result.ok
           /\ bdReqs[i].result.err.kind = "Timeout")
          => /\ bdReqs[i].result.err.ms = bdReqs[i].d \div 1000
             /\ \A k \in Correlators : bdReqs[i].id \notin bdPending[k]
    /\ AllReturned => \A k \in Correlators : bdPending[k] = {}

\* C7 witness: two requests in a row on the direct channel, 100.5 ms then
\* 10 ms, both returned Timeout (100 and 10) and nothing is pending
C7_Witness ==
    /\ Len(bdReqs) = 2
    /\ \A i \in 1..2 :
          /\ bdReqs[i].chan = "direct"
          /\ bdReqs[i].st = "done"
          /\ ~bdReqs[i].result.ok
          /\ bdReqs[i].result.err.kind = "Timeout"
    /\ bdReqs[1].d = 100500 /\ bdReqs[1].result.err.ms = 100
    /\ bdReqs[2].d = 10000 /\ bdReqs[2].result.err.ms = 10
    /\ bdPending["direct"] = {}

\* C8: handle_response and handle_pending_response with an id that is not
\* pending return UnknownRequest and change nothing: pending ids, waiting
\* requests and sinks are as before.
C8_UnknownRequestChangesNothing ==
    [][/\ \A c \in Chans, id \in ResponderIds :
            (/\ bdCall'.op = "handle_response"
             /\ id \notin bdPending[Correlator(c)]
             /\ \E payload \in Payloads : HandleResponse(c, id, payload))
            => /\ bdCall'.result = BidirErr("UnknownRequest")
               /\ UNCHANGED <<bdPending, bdReqs, bdSink, bdNextId>>
       /\ \A id \in ResponderIds :
            (/\ bdCall'.op = "handle_pending_response"
             /\ id \notin bdPending["registry"]
             /\ \E payload \in Payloads : HandlePendingResponse(id, payload))
            => /\ bdCall'.result = BidirErr("UnknownRequest")
               /\ UNCHANGED <<bdPending, bdReqs, bdSink, bdNextId>>
      ]_vars

\* C8 witness: handle_pending_response has returned UnknownRequest while a
\* request is waiting, pending, in the registry
C8_Witness ==
    /\ bdCall.op = "handle_pending_response"
    /\ bdCall.result = BidirErr("UnknownRequest")
    /\ \E i \in 1..Len(bdReqs) :
          /\ bdReqs[i].st = "waiting"
          /\ bdReqs[i].id \in bdPending["registry"]

\* C9: handle_response for a pending id with a payload that is no response
\* returns TypeMismatch and removes the entry; the waiting request can then
\* return, returns an error, and the id is unknown from then on.
C9_TypeMismatchRemovesEntry ==
    [][/\ \A c \in Chans, id \in ResponderIds :
            (/\ bdCall'.op = "handle_response"
             /\ id \in bdPending[Correlator(c)]
             /\ HandleResponse(c, id, Malformed))
            => /\ bdCall'.result = BidirErr("TypeMismatch")
               /\ id \notin bdPending'[Correlator(c)]
               /\ \A i \in 1..Len(bdReqs) :
                     Answers(c, id, i) => bdReqs'[i].slot.state = "dropped"
       /\ \A c \in Chans, id \in ResponderIds :
            (/\ bdCall'.op = "handle_response"
             /\ \E i \in 1..Len(bdReqs) :
                   Answers(c, id, i) /\ bdReqs[i].slot.state = "dropped"
             /\ \E payload \in Payloads : HandleResponse(c, id, payload))
            => bdCall'.result = BidirErr("UnknownRequest")
       /\ \A i \in 1..Len(bdReqs) :
            bdReqs[i].slot.state = "dropped" =>
               /\ bdReqs[i].id \notin bdPending[Correlator(bdReqs[i].chan)]
               /\ bdReqs[i].st = "waiting" => ENABLED CompleteRequest(i)
               /\ bdReqs'[i].st = "done" => ~bdReqs'[i].result.ok
      ]_vars

\* C9 witness: handle_response has returned TypeMismatch and the request it
\* named has returned an error
C9_Witness ==
    /\ bdCall.op = "handle_response"
    /\ bdCall.result = BidirErr("TypeMismatch")
    /\ \E i \in 1..Len(bdReqs) :
          /\ bdReqs[i].chan = "direct"
          /\ bdReqs[i].st = "done"
          /\ ~bdReqs[i].result.ok
          /\ bdReqs[i].result.err.kind = "Transport"

\* C10: on the channel created with is_bidirectional = false every entry
\* point fails with NotSupported, no Request envelope reaches its sink and
\* no pending entry is created.
C10_NotSupportedNoRequest ==
    /\ bdCall.op \in Apis => bdCall.result = BidirErr("NotSupported")
    /\ bdSink["plain"] = << >>
    /\ bdPending["plain"] = {}
    /\ \A i \in 1..Len(bdReqs) : bdReqs[i].chan # "plain"

\* C10 witness: select has failed with NotSupported
C10_Witness ==
    /\ bdCall.op = "select"
    /\ bdCall.result = BidirErr("NotSupported")
    /\ bdSink["plain"] = << >>

\* C21: confirm, prompt and select return the payload only for their own
\* response variant (Confirmed, Text, Selected); a Cancelled response makes
\* the helper return Err(Cancelled), any other variant Err(TypeMismatch);
\* the handle_response that delivered the Cancelled or wrong-variant
\* response returned Ok.
C21_HelpersRejectCancelledAndOtherVariants ==
    [][\A i \in 1..Len(bdReqs) :
          /\ (/\ bdReqs[i].api \in {"confirm", "prompt", "select"}
              /\ bdReqs[i].st = "waiting"
              /\ bdReqs'[i].st = "done"
              /\ bdReqs[i].slot.state = "filled")
             => LET resp == bdReqs[i].slot.value
                    own == <<bdReqs[i].api, resp.type>> \in
                              {<<"confirm", "confirmed">>,
                               <<"prompt", "text">>,
                               <<"select", "selected">>}
                IN  bdReqs'[i].result =
                       IF own
                       THEN [ok |-> TRUE,
                             value |-> IF resp.type = "selected"
                                       THEN resp.values ELSE resp.value]
                       ELSE IF resp.type = "cancelled"
                            THEN BidirErr("Cancelled")
                            ELSE BidirErr("TypeMismatch")
          /\ (/\ bdReqs[i].slot.state = "empty"
              /\ bdReqs'[i].slot.state = "filled")
             => /\ bdCall'.op \in {"handle_response",
                                   "handle_pending_response"}
                /\ bdCall'.result = [ok |-> TRUE]
      ]_vars

\* C21 witness: a confirm has returned Err(Cancelled) and a prompt
\* Err(TypeMismatch), the last delivery having returned Ok
C21_Witness ==
    /\ \E i \in 1..Len(bdReqs) :
          /\ bdReqs[i].api = "confirm"
          /\ bdReqs[i].result = BidirErr("Cancelled")
    /\ \E i \in 1..Len(bdReqs) :
          /\ bdReqs[i].api = "prompt"
          /\ bdReqs[i].result = BidirErr("TypeMismatch")
    /\ bdCall.op = "handle_response"
    /\ bdCall.result = [ok |-> TRUE]

\* C23: a request whose Request envelope meets a closed sink (receiver
\* dropped) returns Transport at once: it never waits, never returns Timeout
\* or a response, emits nothing, and its slot leaves the correlator.
C23_ClosedSinkFailsWithTransport ==
    [][\A i \in 1..Len(bdReqs) :
          (/\ bdReqs[i].st = "inserted"
           /\ ~bdSinkOpen[bdReqs[i].chan]
           /\ bdReqs'[i].st # "inserted")
          => /\ bdReqs'[i].st = "done"
             /\ bdReqs'[i].result = BidirErr("Transport")
             /\ bdReqs[i].id \notin bdPending'[Correlator(bdReqs[i].chan)]
             /\ bdSink'[bdReqs[i].chan] = bdSink[bdReqs[i].chan]
      ]_vars

\* C23 witness: confirm on the direct channel, whose receiver was dropped
\* before anything was sent, has returned Transport (test_receiver_dropped)
C23_Witness ==
    /\ ~bdSinkOpen["direct"]
    /\ bdSink["direct"] = << >>
    /\ \E i \in 1..Len(bdReqs) :
          /\ bdReqs[i].chan = "direct"
          /\ bdReqs[i].api = "confirm"
          /\ bdReqs[i].st = "done"
          /\ bdReqs[i].result = BidirErr("Transport")

\* a request of the run is outstanding: issued and not yet returned
Outstanding == \E i \in 1..Len(bdReqs) : bdReqs[i].st # "done"

\* every request being waited for has its Request envelope in the sink
EmittedBeforeAwaited ==
    \A i \in 1..Len(bdReqs) :
        bdReqs[i].st = "waiting" =>
            \E n \in 1..Len(bdSink[bdReqs[i].chan]) :
                bdSink[bdReqs[i].chan][n].request_id = bdReqs[i].id

\* the events of the wizard that lie after a request point are there only
\* once that request has returned
EventsFollowAnswers ==
    \A j \in 1..Len(wz.events) :
        LET k == CASE wz.events[j].event = "name_collected" -> 1
                   [] wz.events[j].event = "template_selected" -> 2
                   [] wz.events[j].event \in {"created", "done"} -> 3
                   [] OTHER -> IF j = 1 THEN 0 ELSE 1
        IN  k > 0 =>
               \/ ~IsBidirectional(wz.ctx)
               \/ Len(bdReqs) >= k /\ bdReqs[k].st = "done"

\* C22: within the wizard's subscription the Request envelope of a request
\* is in the sink before the wizard waits for the response, the wizard
\* yields nothing while a request is outstanding, and every event after a
\* request point (NameCollected after the name prompt, ...) is yielded only
\* after that request has returned a response, a timeout or a failure.
C22_NothingEmittedWhileOutstanding ==
    [][/\ Outstanding => wz'.events = wz.events
       /\ EmittedBeforeAwaited'
       /\ EventsFollowAnswers'
       /\ Len(wz'.events) > Len(wz.events) => ~Outstanding'
      ]_vars

\* C22 witness: the wizard ran to its end on the direct channel, all three
\* requests answered and the five events yielded
C22_Witness ==
    /\ wz.ctx = "direct"
    /\ wz.pc = "end"
    /\ Len(wz.events) = 5
    /\ wz.events[2] = [event |-> "name_collected", name |-> "my-project"]
    /\ wz.events[5] = [event |-> "done"]
    /\ Len(bdSink["direct"]) = 3

----------------------------------------------------------------------------
(* Claims about plexus.call subscriptions *)

TerminalPositions(sink) == {i \in 1..Len(sink) : IsTerminal(sink[i])}

\* C2: the envelopes sent for a plexus.call subscription contain exactly
\* one terminal item (Done, or Error with recoverable = false) and it is
\* the last one sent: at no time does an envelope follow a terminal one,
\* and once the task has finished with the sink open exactly one terminal
\* item has been sent.
C2_ExactlyOneTerminalLast ==
    /\ \A i \in 1..(Len(rtSink) - 1) : ~IsTerminal(rtSink[i])
    /\ (rtPhase = "done" /\ rtSinkOpen) =>
          Cardinality(TerminalPositions(rtSink)) = 1

\* the namespace a call ends up routed to, through nested plexus.call
\* re-entries; "" when the method string does not parse
RECURSIVE RoutedNamespace(_, _)
RoutedNamespace(method, params) ==
    LET parsed == parse_method(method) IN
    IF ~parsed.ok THEN ""
    ELSE IF /\ parsed.namespace = "plexus"
            /\ parsed.method_name = <<"call">>
            /\ params.valid
    THEN RoutedNamespace(params.method, params.params)
    ELSE parsed.namespace

\* the number of times Plexus::route is entered for a call
RECURSIVE RouteHops(_, _)
RouteHops(method, params) ==
    LET parsed == parse_method(method) IN
    IF /\ parsed.ok
       /\ parsed.namespace = "plexus"
       /\ parsed.method_name = <<"call">>
       /\ params.valid
    THEN 1 + RouteHops(params.method, params.params)
    ELSE 1

\* the provenance an activation gives the envelopes of its own stream
ChildProvenance(ns) == <<ns>>

\* the call being served was routed to a registered activation, which
\* returned a stream
RoutedToActivation ==
    /\ rtPhase \in {"streaming", "finishing", "done"}
    /\ rtRoute.ok
    /\ RoutedNamespace(rtCall.method, rtCall.params) \in DOMAIN activations

\* C11: every envelope route returns for a call routed to ns carries the
\* child's provenance with one entry added per router hop: it is longer
\* than the child's by the number of hops and ends with the child's entries
\* in their order.
C11_ProvenanceExtendedPerHop ==
    RoutedToActivation =>
        LET ns == RoutedNamespace(rtCall.method, rtCall.params)
            child == ChildProvenance(ns)
            hops == RouteHops(rtCall.method, rtCall.params)
        IN  \A i \in 1..Len(rtRoute.stream) :
               LET prov == rtRoute.stream[i].provenance IN
               /\ Len(prov) = Len(child) + hops
               /\ SubSeq(prov, Len(prov) - Len(child) + 1, Len(prov)) = child

\* the envelopes of the sink that came from the routed stream: the ones
\* the task adds itself carry no position in a stream
Delivered(sink) == SelectSeq(sink, LAMBDA item : item.n > 0)

\* C13: at every point the items of the routed stream that reached the sink
\* are a prefix of the items the stream has yielded, in the same order, and
\* while the sink is open they are all of them.
C13_DeliveredInYieldOrder ==
    LET got == Delivered(rtSink) IN
    /\ Len(got) <= Len(rtYielded)
    /\ got = SubSeq(rtYielded, 1, Len(got))
    /\ rtSinkOpen => got = rtYielded

\* C13 witness: a stream of three items of different kinds was delivered
\* whole, followed by the task's Done
C13_Witness ==
    /\ rtPhase = "done"
    /\ rtSinkOpen
    /\ Len(rtYielded) = 3
    /\ rtYielded[1].type = "progress"
    /\ rtYielded[2].type = "data"
    /\ rtYielded[3].type = "error" /\ rtYielded[3].recoverable
    /\ rtSink = rtYielded \o <<DoneItem(<<"plexus">>)>>

\* C14: when routing fails and the client stays connected, the subscription
\* carries exactly two envelopes: an Error with recoverable = false whose
\* message is the routing error's text ("Activation not found: missing"
\* for an unregistered namespace), then a Done.
C14_RouteErrorThenDone ==
    (rtPhase = "done" /\ rtSinkOpen /\ ~rtRoute.ok) =>
        /\ Len(rtSink) = 2
        /\ rtSink[1].type = "error"
        /\ ~rtSink[1].recoverable
        /\ rtSink[1].message = PlexusErrorText(rtRoute.err)
        /\ rtRoute.err.kind = "ActivationNotFound" =>
              rtSink[1].message = <<"Activation not found: ", rtRoute.err.arg>>
        /\ rtCall.method = <<"missing", ".", "x">> =>
              rtSink[1].message = <<"Activation not found: ", "missing">>
        /\ rtSink[2].type = "done"

\* C14 witness: plexus.call {method: "missing.x"} has finished with the
\* client connected
C14_Witness ==
    /\ rtPhase = "done"
    /\ rtSinkOpen
    /\ rtCall.op = "rpc_call"
    /\ rtCall.method = <<"plexus", ".", "call">>
    /\ rtCall.params.valid
    /\ rtCall.params.method = <<"missing", ".", "x">>
    /\ ~rtRoute.ok
    /\ rtSink[1].message = <<"Activation not found: ", "missing">>

\* the method string has a '.'
HasDot(m) == \E i \in DOMAIN m : m[i] = "."

\* the text of a method string before its first '.'
BeforeFirstDot(m) == IF m[1] = "." THEN "" ELSE m[1]

\* the text of a method string after its first '.'
AfterFirstDot(m) ==
    LET k == CHOOSE i \in DOMAIN m :
                m[i] = "." /\ \A j \in 1..(i - 1) : m[j] # "."
    IN  SubSeq(m, k + 1, Len(m))

\* C16: route(method, params) fails with InvalidParams and invokes nothing
\* when the method string has no '.'; fails with ActivationNotFound(ns) and
\* invokes nothing when the text before the first '.' is neither "plexus"
\* nor registered; and for a registered ns invokes that activation exactly
\* once with everything after the first '.' as the method name. For ns
\* other than "plexus" these are the only failures without an invocation.
C16_RouteFailuresAndSingleInvocation ==
    (rtCall.op = "rpc_call" /\ rtPhase \in {"streaming", "failed"}) =>
        LET m == rtCall.method
            invoked == RouteInvokes(activations, m, rtCall.params)
        IN  /\ ~HasDot(m) =>
                  /\ ~rtRoute.ok
                  /\ rtRoute.err.kind = "InvalidParams"
                  /\ invoked = << >>
            /\ (HasDot(m) /\ BeforeFirstDot(m) \notin
                                 DOMAIN activations \cup {"plexus"}) =>
                  /\ rtRoute = PlexusErr("ActivationNotFound",
                                         BeforeFirstDot(m))
                  /\ invoked = << >>
            /\ (HasDot(m) /\ BeforeFirstDot(m) \in DOMAIN activations
                          /\ BeforeFirstDot(m) # "plexus") =>
                  invoked = <<[namespace |-> BeforeFirstDot(m),
                               method_name |-> AfterFirstDot(m)]>>
            /\ (HasDot(m) /\ BeforeFirstDot(m) # "plexus"
                          /\ ~rtRoute.ok /\ invoked = << >>) =>
                  BeforeFirstDot(m) \notin DOMAIN activations

\* C16 witness: "health.check.x" was routed to health with method name
\* "check.x"
C16_Witness ==
    /\ rtCall.op = "rpc_call"
    /\ rtPhase = "streaming"
    /\ rtCall.method = <<"health", ".", "check", ".", "x">>
    /\ RouteInvokes(activations, rtCall.method, rtCall.params)
          = <<[namespace |-> "health",
               method_name |-> <<"check", ".", "x">>]>>

----------------------------------------------------------------------------
(* Claims about the subscription adapter *)

\* the Done envelopes of a sink
DonePositions(sink) == {i \in DOMAIN sink : sink[i].type = "done"}

\* the inner stream has completed with the sink open: every event was
\* yielded and delivered, and the task has finished
AdapterCompleted ==
    /\ rtCall.op = "into_subscription"
    /\ rtPhase = "done"
    /\ rtSinkOpen
    /\ rtStream = << >>
    /\ Delivered(rtSink) = rtYielded

\* C15: when the inner stream completes with the sink open, the sink holds
\* exactly one Done envelope: the adapter's own Done follows the last item
\* when that item was not terminal, and is not sent when it was.
C15_ExactlyOneDone ==
    AdapterCompleted =>
        LET lastTerminal ==
                rtYielded # << >> /\ IsTerminal(rtYielded[Len(rtYielded)])
        IN  /\ Cardinality(DonePositions(rtSink)) = 1
            /\ lastTerminal => Len(rtSink) = Len(rtYielded)
            /\ ~lastTerminal =>
                  rtSink = rtYielded \o <<DoneItem(rtCall.provenance)>>

\* C28: once the client has dropped the sink, the adapter's task
\* eventually stops (and with it drops the activation's stream).
C28_DisconnectStopsTask ==
    [](~rtSinkOpen /\ rtPhase \in {"streaming", "finishing"}
         => <>(rtPhase = "done"))

\* C30: once a send on the sink has failed the task is abandoned: it pulls
\* no further item from the activation's stream and attempts no further
\* send on that sink.
C30_FailedSendAbandonsTask ==
    [][rtFailed >= 1 =>
          /\ rtYielded' = rtYielded
          /\ rtStream' = rtStream
          /\ rtFailed' = rtFailed
      ]_vars

\* C31: when an item cannot be serialized the task stops pulling items and
\* makes an attempt to send an Error envelope: the step that meets the item
\* puts an Error envelope on the open sink, and no item is pulled after it.
C31_UnserializableItemSendsError ==
    [][/\ (/\ rtCall.op = "into_subscription"
           /\ rtPhase = "streaming"
           /\ rtStream # << >>
           /\ rtYielded' # rtYielded
           /\ ~Head(rtStream).serializable
           /\ rtSinkOpen)
          => /\ Len(rtSink') = Len(rtSink) + 1
             /\ rtSink'[Len(rtSink')].type = "error"
       /\ (rtCall.op = "into_subscription" /\ rtPhase # "streaming")
          => rtYielded' = rtYielded
      ]_vars

----------------------------------------------------------------------------
(* Claims about the registry *)

\* the activations registered into instance p so far, as a set
Registered(p) == {built[p].log[i] : i \in DOMAIN built[p].log}

\* no two different activations registered into p share a namespace
DistinctNamespaces(p) ==
    \A a, b \in Registered(p) : a.namespace = b.namespace => a = b

\* C12 as stated: two instances that registered the same (namespace,
\* version, methods) tuples, in any order, have the same hash.
C12_SameTuplesSameHash ==
    \A p, q \in Instances :
        Registered(p) = Registered(q)
        => compute_hash(built[p]) = compute_hash(built[q])

\* C12, amended: two instances that registered the same tuples, no two of
\* them under one namespace, have the same hash, whatever the order of the
\* register calls and whatever order their maps iterate in.
C12_SameBindingsSameHash ==
    \A p, q \in Instances :
        (/\ Registered(p) = Registered(q)
         /\ DistinctNamespaces(p)
         /\ DistinctNamespaces(q))
        => compute_hash(built[p]) = compute_hash(built[q])

\* C12 witness: register(A).register(B) beside register(B).register(A),
\* their maps iterating in different orders, with equal hashes
C12_Witness ==
    /\ Len(built[1].log) = 2
    /\ built[1].log[1].namespace # built[1].log[2].namespace
    /\ built[2].log = <<built[1].log[2], built[1].log[1]>>
    /\ built[1].order # built[2].order
    /\ compute_hash(built[1]) = compute_hash(built[2])

\* the namespaces registered into instance p so far
Namespaces(p) == {a.namespace : a \in Registered(p)}

\* the activation registered last under ns into instance p
LastRegistered(p, ns) ==
    LET log == built[p].log
        k == CHOOSE i \in DOMAIN log :
                /\ log[i].namespace = ns
                /\ \A j \in DOMAIN log : log[j].namespace = ns => j <= i
    IN  log[k]

\* a registry that holds the last registration of each namespace of p and
\* nothing else
LastBindings(p) ==
    [acts |-> [ns \in Namespaces(p) |-> LastRegistered(p, ns)],
     order |-> CHOOSE o \in IterationOrders(Namespaces(p)) : TRUE,
     log |-> << >>]

----------------------------------------------------------------------------
(* Claims about handles *)

\* C18: for every handle with non-empty plugin, version and method, the
\* display string parses, and parses back to the same handle; with an empty
\* meta list the display string is plugin@version::method.
C18_ParseDisplayRoundTrip ==
    /\ (hText # << >> /\ handle.meta = << >>) =>
          hText = handle.plugin \o <<"@">> \o handle.version
                  \o <<":", ":">> \o handle.method
    /\ hParsed # NoCall =>
          /\ hParsed.ok
          /\ hParsed.value = handle

\* C32: the namespaces reported by list_activations, the router's own entry
\* included, are pairwise distinct, and no registered activation is listed
\* or routed under "plexus" or under the empty namespace.
C32_NamespacesDistinctPlexusReserved ==
    \A p \in Instances :
        LET listed == list_activations(built[p]) IN
        /\ \A i, j \in DOMAIN listed :
              listed[i].namespace = listed[j].namespace => i = j
        /\ \A i \in DOMAIN listed :
              i > 1 => listed[i].namespace \notin {"plexus", ""}
        /\ DOMAIN built[p].acts \cap {"plexus", ""} = {}

----------------------------------------------------------------------------
(* Claims about the hub in use *)

\* C24: every envelope produced for a call on a Plexus instance (Data items
\* wrapped by wrap_stream, error streams, the router's synthetic Error and
\* Done) carries the hash compute_hash gives for that instance, whether or
\* not into_rpc_module has published a hash yet.
C24_EnvelopeCarriesInstanceHash ==
    hubCall.op \in EnvelopeMakers
    => hubCall.plexus_hash = compute_hash(hubCall.of)

\* the namespaces of a registration log, each once, in the order of their
\* first registration
RECURSIVE FirstRegistered(_, _)
FirstRegistered(log, seen) ==
    IF log = << >> THEN << >>
    ELSE IF Head(log).namespace \in seen
         THEN FirstRegistered(Tail(log), seen)
         ELSE <<Head(log).namespace>>
              \o FirstRegistered(Tail(log), seen \cup {Head(log).namespace})

\* C26: the tool catalog has one tool per (activation, method) pair, named
\* "namespace.method", plexus first, then the activations in registration
\* order, the methods of each in declared order; building it again gives
\* the same sequence.
C26_ToolsInRegistrationOrder ==
    hubCall.op = "tools/list" =>
        LET p == hubCall.of
            nss == FirstRegistered(p.log, {})
        IN  /\ hubCall.tools =
                  schemas_to_mcp_tools(
                      <<PlexusSelf>> \o [i \in DOMAIN nss |-> p.acts[nss[i]]])
            /\ hubCall.tools = schemas_to_mcp_tools(list_full_schemas(p))

\* C33: the context is written once. The first init that takes effect
\* stores its value, every later init leaves the context as it is, and a
\* read returns the empty string before that init and the stored value
\* after it, so reads never return two different non-empty values.
C33_ContextWrittenOnce ==
    [][/\ context.set => context' = context
       /\ (~context.set /\ context'.set)
          => \E p \in Instances :
                /\ served' = served \cup {p}
                /\ context'.hash = compute_hash(built[p])
       /\ (hubCall' # hubCall /\ hubCall'.op \in {"wrap_stream", "rpc_call"})
          => hubCall'.plexus_hash =
                IF context.set THEN context.hash ELSE EmptyString
      ]_vars

\* a second init with another value has been ignored and a read has
\* returned the first value
C33_Witness ==
    /\ served = Instances
    /\ context.set
    /\ \E p \in Instances : context.hash # compute_hash(built[p])
    /\ hubCall.op = "wrap_stream"
    /\ hubCall.plexus_hash = context.hash

\* C40: the RPC module built by into_rpc_module agrees with the routing
\* registry: the activations whose methods it merges are the activations
\* that route reaches, one per registered namespace.
C40_ModuleAgreesWithRegistry ==
    \A p \in served :
        LET merged == pending_rpc(built[p])
            acts == built[p].acts
        IN  /\ Len(merged) = Cardinality(DOMAIN acts)
            /\ \A i \in DOMAIN merged :
                  /\ merged[i].namespace \in DOMAIN acts
                  /\ merged[i] = acts[merged[i].namespace]

----------------------------------------------------------------------------
(* Claims about the lifecycle *)

\* C38: the lifecycle only moves forward. A transition call that succeeds
\* moves the state to the next one in the order Uninitialized,
\* Initializing, Ready, ShuttingDown; every other call leaves the state as
\* it is; every transition from ShuttingDown fails. No state is therefore
\* entered again once left and at most three transitions succeed.
C38_LifecycleMovesForwardOnly ==
    [][LET order == <<"Uninitialized", "Initializing", "Ready",
                      "ShuttingDown">>
           Pos(s) == CHOOSE i \in 1..4 : order[i] = s
       IN  /\ Pos(mcpState') >= Pos(mcpState)
           /\ (mcpCall'.op = "transition" /\ mcpCall'.result.ok)
              => /\ Pos(mcpState') = Pos(mcpState) + 1
                 /\ mcpState' = mcpCall'.to
           /\ ~(mcpCall'.op = "transition" /\ mcpCall'.result.ok)
              => mcpState' = mcpState
           /\ (mcpCall'.op = "transition" /\ mcpState = "ShuttingDown")
              => /\ ~mcpCall'.result.ok
                 /\ mcpCall'.result.err.kind = "InvalidTransition"
      ]_vars

\* after three successful transitions a fourth call, from ShuttingDown,
\* has failed
C38_Witness ==
    /\ mcpCalls = 4
    /\ mcpState = "ShuttingDown"
    /\ mcpCall.op = "transition"
    /\ mcpCall.from = "ShuttingDown"
    /\ ~mcpCall.result.ok

\* C39: transition is atomic when threads call it concurrently. The state
\* changes only in the step of a transition call whose check saw the state
\* being replaced; a call succeeds exactly when its edge is valid from the
\* state at the time it returns, and fails with InvalidTransition
\* otherwise, so of the calls that have returned at most one succeeded for
\* each edge; the reading methods leave the state as it is and report the
\* state the machine is in when they read it.
C39_TransitionIsAtomic ==
    [][/\ \A t \in McpThreads :
            (mcpThreads[t].pc = "loaded" /\ mcpThreads'[t].pc = "returned")
            => LET to == mcpThreads[t].op.arg
                   result == mcpThreads'[t].result
               IN  IF ValidTransition(mcpState, to)
                   THEN result.ok /\ mcpState' = to
                   ELSE /\ result = [ok |-> FALSE,
                                     err |-> [kind |-> "InvalidTransition",
                                              from |-> mcpState, to |-> to]]
                        /\ mcpState' = mcpState
       /\ mcpState' # mcpState
          => \E t \in McpThreads :
                /\ mcpThreads[t].pc = "loaded"
                /\ mcpThreads'[t].pc = "returned"
                /\ mcpThreads[t].from = mcpState
       /\ \A t, u \in McpThreads :
            (/\ t # u
             /\ mcpThreads'[t].pc = "returned"
             /\ mcpThreads'[u].pc = "returned"
             /\ mcpThreads'[t].op.name = "transition"
             /\ mcpThreads'[u].op.name = "transition"
             /\ mcpThreads'[t].op.arg = mcpThreads'[u].op.arg)
            => ~(mcpThreads'[t].result.ok /\ mcpThreads'[u].result.ok)
       /\ \A t \in McpThreads :
            (/\ mcpThreads[t].pc = "locked"
             /\ mcpThreads'[t].pc = "returned")
            => /\ mcpState' = mcpState
               /\ mcpThreads'[t].from = mcpState
               /\ mcpThreads'[t].op.name = "current"
                  => mcpThreads'[t].result.value = mcpState
      ]_vars

\* two threads called transition(Initializing): one succeeded and the
\* other returned InvalidTransition from Initializing; a third thread holds
\* the write guard for transition(Ready)
C39_Witness ==
    \E t, u, w \in McpThreads :
        /\ t # u /\ t # w /\ u # w
        /\ mcpThreads[t].pc = "returned"
        /\ mcpThreads[t].op = [name |-> "transition", arg |-> "Initializing"]
        /\ mcpThreads[t].result.ok
        /\ mcpThreads[u].pc = "returned"
        /\ mcpThreads[u].op = [name |-> "transition", arg |-> "Initializing"]
        /\ ~mcpThreads[u].result.ok
        /\ mcpThreads[u].result.err.from = "Initializing"
        /\ mcpThreads[w].pc = "loaded"
        /\ mcpThreads[w].op.arg = "Ready"
        /\ mcpState = "Initializing"

----------------------------------------------------------------------------
(* Claims about concurrent requests *)

\* C34: requests outstanding at the same time have distinct request ids,
\* and a response delivered for an id reaches only the request issued
\* under that id: a step that delivers to a request's slot removes that
\* request's id from its registry and leaves every other request as it was.
C34_ResponsesReachTheirOwnRequest ==
    [][/\ \A i, j \in 1..Len(bdReqs') :
            bdReqs'[i].id = bdReqs'[j].id => i = j
       /\ \A i \in 1..Len(bdReqs) :
            (/\ Len(bdReqs') = Len(bdReqs)
             /\ bdReqs[i].slot.state = "empty"
             /\ bdReqs'[i].slot.state # "empty")
            => LET k == Correlator(bdReqs[i].chan) IN
               /\ bdReqs[i].id \in bdPending[k]
               /\ bdPending' = [bdPending EXCEPT ![k] = @ \ {bdReqs[i].id}]
               /\ \A j \in 1..Len(bdReqs) : j # i => bdReqs'[j] = bdReqs[j]
      ]_vars

\* two requests were waiting on one registry at the same time and the
\* later one was answered first
C34_Witness ==
    /\ Len(bdReqs) = 2
    /\ Correlator(bdReqs[1].chan) = Correlator(bdReqs[2].chan)
    /\ bdReqs[1].st = "waiting"
    /\ bdReqs[1].slot.state = "empty"
    /\ bdReqs[1].id \in bdPending[Correlator(bdReqs[1].chan)]
    /\ bdReqs[2].st = "done"
    /\ bdReqs[2].result.ok

----------------------------------------------------------------------------
(* Claims about the interactive activation *)

\* the wizard's requests were answered, in order, with a non-empty name, a
\* non-empty selection and a confirmation
AllAccepted ==
    /\ IsBidirectional(wz.ctx)
    /\ Len(bdReqs) = 3
    /\ \A i \in 1..3 : /\ bdReqs[i].api = WizardCalls[i]
                       /\ bdReqs[i].st = "done"
                       /\ bdReqs[i].result.ok
    /\ bdReqs[1].result.value # ""
    /\ bdReqs[2].result.value # << >>
    /\ bdReqs[3].result.value = "true"

\* C35: Created is emitted only after the prompt returned a non-empty
\* name, the select a non-empty selection and the confirm true, in this
\* order; the events are then Started, NameCollected, TemplateSelected,
\* Created and Done, and Created carries the prompted name and the first
\* selected template.
C35_CreatedOnlyAfterThreeAcceptedAnswers ==
    LET success ==
            <<[event |-> "started"],
              [event |-> "name_collected", name |-> bdReqs[1].result.value],
              [event |-> "template_selected",
               template |-> Head(bdReqs[2].result.value)],
              [event |-> "created", name |-> bdReqs[1].result.value,
               template |-> Head(bdReqs[2].result.value)],
              [event |-> "done"]>>
    IN  /\ (\E n \in DOMAIN wz.events : wz.events[n].event = "created")
           => /\ AllAccepted
              /\ \/ wz.pc = "done" /\ wz.events = SubSeq(success, 1, 4)
                 \/ wz.pc = "end" /\ wz.events = success
        /\ (AllAccepted /\ wz.pc = "end") => wz.events = success

\* the wizard has finished after a selection of two templates
C35_Witness ==
    /\ AllAccepted
    /\ wz.pc = "end"
    /\ Len(bdReqs[2].result.value) = 2
    /\ wz.events[4] = [event |-> "created", name |-> "my-project",
                       template |-> "full"]
    /\ wz.events[5].event = "done"

\* C36: the first request that is cancelled, fails or returns an answer
\* that is not accepted ends the wizard: one closing event (Cancelled or
\* Error) is emitted, as the last event of the stream, no request is issued
\* after the one that failed, and neither Created nor Done is emitted; a
\* cancelled request closes the stream with Cancelled.
C36_FirstFailureClosesTheStream ==
    LET Closing(ev) == ev.event \in {"cancelled", "error"}
        issued == IF IsBidirectional(wz.ctx) THEN Len(bdReqs) ELSE 1
    IN  /\ \A n \in DOMAIN wz.events :
              Closing(wz.events[n])
              => /\ n = Len(wz.events)
                 /\ wz.pc = "end"
                 /\ n = issued + 1
                 /\ \A m \in DOMAIN wz.events :
                       wz.events[m].event \notin {"created", "done"}
                 /\ IsBidirectional(wz.ctx)
                    => /\ \A i \in 1..(issued - 1) : bdReqs[i].result.ok
                       /\ bdReqs[issued].st = "done"
        /\ (wz.pc = "end" /\ ~AllAccepted)
           => /\ Closing(wz.events[Len(wz.events)])
              /\ IsBidirectional(wz.ctx)
                 => LET last == bdReqs[issued].result IN
                    (~last.ok /\ last.err.kind = "Cancelled")
                    => wz.events[Len(wz.events)].event = "cancelled"

\* the select request was cancelled after the name had been collected
C36_Witness ==
    /\ wz.pc = "end"
    /\ Len(bdReqs) = 2
    /\ bdReqs[2].st = "done"
    /\ ~bdReqs[2].result.ok
    /\ bdReqs[2].result.err.kind = "Cancelled"
    /\ Len(wz.events) = 3
    /\ wz.events[3].event = "cancelled"

\* C37: delete emits Deleted only after its confirm request returned
\* Ok(true), and then one Deleted per path in input order followed by Done;
\* on any other outcome of the confirm it emits Cancelled alone; with no
\* paths it issues no request and emits Done alone.
C37_DeleteOnlyAfterConfirmation ==
    LET confirmed == /\ IsBidirectional(wz.ctx)
                     /\ Len(bdReqs) = 1
                     /\ bdReqs[1].st = "done"
                     /\ bdReqs[1].result = [ok |-> TRUE, value |-> "true"]
        all == [i \in 1..Len(wz.paths) |->
                   [event |-> "deleted", path |-> wz.paths[i]]]
                \o <<[event |-> "done"]>>
    IN  /\ (\E n \in DOMAIN wz.events : wz.events[n].event = "deleted")
           => /\ confirmed
              /\ Len(wz.events) <= Len(all)
              /\ wz.events = SubSeq(all, 1, Len(wz.events))
        /\ wz.pc = "end"
           => wz.events = IF wz.paths = << >> THEN <<[event |-> "done"]>>
                          ELSE IF confirmed THEN all
                          ELSE <<[event |-> "cancelled"]>>
        /\ wz.paths = << >> => bdReqs = << >> /\ bdSink[wz.ctx] = << >>
        /\ Len(bdReqs) <= 1

\* two paths were deleted in input order after the confirmation
C37_Witness ==
    /\ wz.pc = "end"
    /\ wz.paths = <<"file1.txt", "file2.txt">>
    /\ Len(bdReqs) = 1
    /\ bdReqs[1].result = [ok |-> TRUE, value |-> "true"]
    /\ wz.events = <<[event |-> "deleted", path |-> "file1.txt"],
                     [event |-> "deleted", path |-> "file2.txt"],
                     [event |-> "done"]>>

----------------------------------------------------------------------------
(* Claims about parsing handles *)

\* C25: from_str rejects every input whose plugin, version or method
\* component is empty ("@1.0.0::chat", "cone@::chat", "cone@1.0.0::"), and
\* accepts inputs whose meta entries are empty strings.
C25_EmptyComponentsRejected ==
    (hParsed # NoCall /\ hParsed.ok)
    => /\ hParsed.value.plugin # << >>
       /\ hParsed.value.version # << >>
       /\ hParsed.value.method # << >>

====
